---------------------------- MODULE Spec2Model ----------------------------
(***************************************************************************)
(* NESquick: the 6502 core (registers, address-space router, addressing    *)
(* modes, instructions, cycle budget, clock) as a state machine.           *)
(*                                                                         *)
(* The three RAM arrays and the cartridge arrays are zero-initialised      *)
(* fixed-size byte arrays in the source.  They are represented here by     *)
(* the function of their non-zero entries (an index outside the DOMAIN     *)
(* holds 0), which is the same array and keeps the states small.           *)
(***************************************************************************)
EXTENDS Integers, Naturals, Sequences, FiniteSets, TLC

(***************************************************************************)
(* Bounds of the model.                                                    *)
(***************************************************************************)
\* clock() is not called any more once `cycles` has reached this value
MaxCycles == 30
\* number of load()/write() calls of the address-space specification
MaxMemOps == 2

(***************************************************************************)
(* Machine integers.                                                       *)
(***************************************************************************)
U8 == 256
U16 == 65536

RECURSIVE BitAnd(_, _)
BitAnd(a, b) ==
    IF a = 0 \/ b = 0 THEN 0
    ELSE (a % 2) * (b % 2) + 2 * BitAnd(a \div 2, b \div 2)

RECURSIVE BitOr(_, _)
BitOr(a, b) ==
    IF a = 0 THEN b
    ELSE IF b = 0 THEN a
    ELSE (IF a % 2 = 1 \/ b % 2 = 1 THEN 1 ELSE 0) + 2 * BitOr(a \div 2, b \div 2)

RECURSIVE BitXor(_, _)
BitXor(a, b) ==
    IF a = 0 THEN b
    ELSE IF b = 0 THEN a
    ELSE ((a + b) % 2) + 2 * BitXor(a \div 2, b \div 2)

\* `v as u8`
AsU8(v) == v % U8
\* `(v as u16) << 8`
Shl8(v) == (v * 256) % U16
\* `v >> 8` of a u16
Shr8(v) == v \div 256
\* u8::wrapping_add / u8::wrapping_sub
WrappingAdd8(a, b) == (a + b) % U8
WrappingSub8(a, b) == (a - b + U8) % U8
\* u16::wrapping_add / u16::wrapping_sub
WrappingAdd16(a, b) == (a + b) % U16
WrappingSub16(a, b) == (a - b + U16) % U16
\* `b as u8` of a bool
BoolAsU8(b) == IF b THEN 1 ELSE 0
\* `v as i8` of a u8
AsI8(v) == IF v >= 128 THEN v - 256 ELSE v

(***************************************************************************)
(* Byte arrays.                                                            *)
(***************************************************************************)
ZeroArray == [i \in {} |-> 0]

ArrayGet(arr, i) == IF i \in DOMAIN arr THEN arr[i] ELSE 0

ArraySet(arr, i, v) ==
    IF v = 0
    THEN [j \in (DOMAIN arr) \ {i} |-> arr[j]]
    ELSE [j \in (DOMAIN arr) \cup {i} |-> IF j = i THEN v ELSE arr[j]]

(***************************************************************************)
(* The state: the fields of struct Cpu, and what the run has done so far.  *)
(***************************************************************************)
VARIABLES
    registers,        \* Registers {a, x, y, p: Status, pc, stack_pointer}
    cycles,           \* u64
    wait_cycles,      \* u32
    zero_page_ram,    \* [u8; 0x0100]
    stack,            \* [u8; 0x0100]
    internal_ram,     \* [u8; 0x0600]
    cartridge,        \* Box<dyn Mapper>
    overflow_checks,  \* the build: TRUE when `+` panics on overflow (debug), FALSE when it wraps (release)
    aborted,          \* a call has panicked: the process is gone
    last,             \* the last call made on the Cpu, its inputs and what it returned
    decoded           \* the latest clock() call that decoded an instruction

vars == <<registers, cycles, wait_cycles, zero_page_ram, stack, internal_ram,
          cartridge, overflow_checks, aborted, last, decoded>>

cpu_fields == <<registers, cycles, wait_cycles, zero_page_ram, stack, internal_ram, cartridge>>

\* the Cpu as a value, with `panicked` set once an operation on it has panicked
Self ==
    [registers |-> registers, cycles |-> cycles, wait_cycles |-> wait_cycles,
     zero_page_ram |-> zero_page_ram, stack |-> stack, internal_ram |-> internal_ram,
     cartridge |-> cartridge, panicked |-> FALSE]

(***************************************************************************)
(* registers.rs                                                            *)
(***************************************************************************)
\* get_byte without the overflow flag
get_byte_DropsOverflow(p) ==
    BoolAsU8(p.carry)
        + BoolAsU8(p.zero) * 2
        + BoolAsU8(p.interrupt_disable) * 4
        + BoolAsU8(p.decimal) * 8
        + BoolAsU8(p.negative) * 128

get_byte(p) ==
    BoolAsU8(p.carry)
        + BoolAsU8(p.zero) * 2
        + BoolAsU8(p.interrupt_disable) * 4
        + BoolAsU8(p.decimal) * 8
        + BoolAsU8(p.overflow) * 64
        + BoolAsU8(p.negative) * 128

\* set_byte taking the decimal flag from bit 4
set_byte_BreakAsDecimal(status) ==
    [carry             |-> BitAnd(status, 1) = 1,
     zero              |-> BitAnd(status, 2) \div 2 = 1,
     interrupt_disable |-> BitAnd(status, 4) \div 4 = 1,
     decimal           |-> BitAnd(status, 16) \div 16 = 1,
     overflow          |-> BitAnd(status, 64) \div 64 = 1,
     negative          |-> BitAnd(status, 128) \div 128 = 1]

set_byte(status) ==
    [carry             |-> BitAnd(status, 1) = 1,
     zero              |-> BitAnd(status, 2) \div 2 = 1,
     interrupt_disable |-> BitAnd(status, 4) \div 4 = 1,
     decimal           |-> BitAnd(status, 8) \div 8 = 1,
     overflow          |-> BitAnd(status, 64) \div 64 = 1,
     negative          |-> BitAnd(status, 128) \div 128 = 1]

RegistersNew ==
    [a |-> 0, x |-> 0, y |-> 0,
     p |-> [carry |-> FALSE, zero |-> FALSE, interrupt_disable |-> TRUE,
            decimal |-> FALSE, overflow |-> FALSE, negative |-> FALSE],
     pc |-> 32768, stack_pointer |-> 253]

(***************************************************************************)
(* cartridge.rs: the two mappers.                                          *)
(***************************************************************************)
DummyMapperNew == [kind |-> "DummyMapper", rom |-> ZeroArray, ram |-> ZeroArray, rom_size |-> 0]

\* NROM::new: rom_size = prg banks * 0x4000, the PRG bytes copied to rom[..rom_size]
NROMNew(prg_banks, prg) ==
    [kind |-> "NROM", rom |-> prg, ram |-> ZeroArray, rom_size |-> prg_banks * 16384]

MapperRead(m, address) ==
    IF m.kind = "DummyMapper" THEN 0
    ELSE IF address < 24576 THEN 0
    ELSE LET adr == address - 24576
         IN  IF adr <= 8191 THEN ArrayGet(m.ram, adr)
             ELSE IF adr <= 40959 THEN ArrayGet(m.rom, (adr - 8192) % m.rom_size)
             ELSE 0

MapperWrite(m, address, data) ==
    IF m.kind = "DummyMapper" THEN m
    ELSE IF address >= 24576
    THEN LET adr == address - 24576
         IN  IF adr <= 8191 THEN [m EXCEPT !.ram = ArraySet(m.ram, adr, data)]
             ELSE IF adr <= 40959
             THEN [m EXCEPT !.rom = ArraySet(m.rom, (adr - 8192) % m.rom_size, data)]
             ELSE m
    ELSE m

(***************************************************************************)
(* mod.rs / address_space.rs: the router, load and write.                  *)
(***************************************************************************)
\* the router without the mirrors of the 2 KiB of RAM
corresponding_address_space_NoMirror(address) ==
    LET first_nibble == AsU8(Shr8(address))
        second_nibble == AsU8(address)
    IN  IF first_nibble = 0
        THEN [kind |-> "ZeroPageAddressSpace", index |-> second_nibble]
        ELSE IF first_nibble = 1
        THEN [kind |-> "StackAddressSpace", index |-> second_nibble]
        ELSE IF first_nibble <= 7
        THEN [kind |-> "RamAddressSpace", index |-> address - 512]
        ELSE IF first_nibble <= 64
        THEN [kind |-> "PpuRegistersAddressSpace", index |-> second_nibble % 8]
        ELSE [kind |-> "CartridgeAddressSpace", index |-> address]

corresponding_address_space(address) ==
    LET first_nibble == AsU8(Shr8(address))
        second_nibble == AsU8(address)
    IN  IF first_nibble <= 31
        THEN IF first_nibble % 8 = 0
             THEN [kind |-> "ZeroPageAddressSpace", index |-> second_nibble]
             ELSE IF first_nibble % 8 = 1
             THEN [kind |-> "StackAddressSpace", index |-> second_nibble]
             ELSE IF first_nibble % 8 >= 2 /\ first_nibble % 8 <= 7
             THEN [kind |-> "RamAddressSpace", index |-> (address % 2048) - 512]
             ELSE [kind |-> "NullAddressSpace", index |-> 0]
        ELSE IF first_nibble <= 64
        THEN [kind |-> "PpuRegistersAddressSpace", index |-> second_nibble % 8]
        ELSE IF first_nibble = 64 /\ second_nibble <= 19
        THEN [kind |-> "ApuRegistersAddressSpace", index |-> second_nibble]
        ELSE IF first_nibble = 64 /\ second_nibble <= 23
        THEN [kind |-> "IORegistersAddressSpace", index |-> second_nibble]
        ELSE IF first_nibble = 64 /\ second_nibble <= 31
        THEN [kind |-> "NullAddressSpace", index |-> 0]
        ELSE [kind |-> "CartridgeAddressSpace", index |-> address]

\* AddressSpace::read of each address space
AddressSpaceRead(space, c) ==
    IF space.kind = "ZeroPageAddressSpace" THEN ArrayGet(c.zero_page_ram, space.index)
    ELSE IF space.kind = "StackAddressSpace" THEN ArrayGet(c.stack, space.index)
    ELSE IF space.kind = "RamAddressSpace" THEN ArrayGet(c.internal_ram, space.index)
    ELSE IF space.kind = "CartridgeAddressSpace" THEN MapperRead(c.cartridge, space.index)
    ELSE 0

\* an AddressSpace::write whose PPU register window keeps the byte written
AddressSpaceWrite_PpuStores(space, c, data) ==
    IF space.kind = "ZeroPageAddressSpace"
    THEN [c EXCEPT !.zero_page_ram = ArraySet(c.zero_page_ram, space.index, data)]
    ELSE IF space.kind = "StackAddressSpace"
    THEN [c EXCEPT !.stack = ArraySet(c.stack, space.index, data)]
    ELSE IF space.kind = "RamAddressSpace"
    THEN [c EXCEPT !.internal_ram = ArraySet(c.internal_ram, space.index, data)]
    ELSE IF space.kind = "CartridgeAddressSpace"
    THEN [c EXCEPT !.cartridge = MapperWrite(c.cartridge, space.index, data)]
    ELSE IF space.kind = "PpuRegistersAddressSpace"
    THEN [c EXCEPT !.internal_ram = ArraySet(c.internal_ram, space.index, data)]
    ELSE c

\* AddressSpace::write of each address space
AddressSpaceWrite(space, c, data) ==
    IF space.kind = "ZeroPageAddressSpace"
    THEN [c EXCEPT !.zero_page_ram = ArraySet(c.zero_page_ram, space.index, data)]
    ELSE IF space.kind = "StackAddressSpace"
    THEN [c EXCEPT !.stack = ArraySet(c.stack, space.index, data)]
    ELSE IF space.kind = "RamAddressSpace"
    THEN [c EXCEPT !.internal_ram = ArraySet(c.internal_ram, space.index, data)]
    ELSE IF space.kind = "CartridgeAddressSpace"
    THEN [c EXCEPT !.cartridge = MapperWrite(c.cartridge, space.index, data)]
    ELSE c

\* the calls an address space makes on the cartridge handle
CartridgeCalls(space, op, data) ==
    IF space.kind = "CartridgeAddressSpace"
    THEN <<[op |-> op, address |-> space.index, data |-> data]>>
    ELSE <<>>

load(c, address) == AddressSpaceRead(corresponding_address_space(address), c)

\* write storing the byte in the next page as well
write_NextPageToo(c, address, data) ==
    AddressSpaceWrite(corresponding_address_space((address + 256) % U16),
                      AddressSpaceWrite(corresponding_address_space(address), c, data), data)

write(c, address, data) == AddressSpaceWrite(corresponding_address_space(address), c, data)

\* `load(a) as u16 | (load(a + 1) as u16) << 8` with a + 1 known not to overflow
LoadWord(c, address) == BitOr(load(c, address), Shl8(load(c, address + 1)))

\* push with a stack pointer that stops at 0x00
push_Saturating(c, data) ==
    LET w == write(c, BitOr(256, c.registers.stack_pointer), data)
    IN  [w EXCEPT !.registers.stack_pointer =
                    IF c.registers.stack_pointer = 0 THEN 0 ELSE c.registers.stack_pointer - 1]

push(c, data) ==
    LET w == write(c, BitOr(256, c.registers.stack_pointer), data)
    IN  [w EXCEPT !.registers.stack_pointer = WrappingSub8(c.registers.stack_pointer, 1)]

top(c) == load(c, BitOr(256, WrappingAdd8(c.registers.stack_pointer, 1)))

\* returns the Cpu after the call and the byte returned
pop(c) ==
    [cpu  |-> [c EXCEPT !.registers.stack_pointer = WrappingAdd8(c.registers.stack_pointer, 1)],
     data |-> top(c)]

\* `a + 1` on u16: panics when the build checks overflow, wraps otherwise
CheckedAdd16(c, a, n) ==
    [cpu  |-> IF a + n >= U16 /\ overflow_checks THEN [c EXCEPT !.panicked = TRUE] ELSE c,
     data |-> (a + n) % U16]

load_byte_at_pc(c) == load(c, c.registers.pc)

increment_pc(c) ==
    LET Assign(s) == [s.cpu EXCEPT !.registers.pc = s.data]
    IN  Assign(CheckedAdd16(c, c.registers.pc, 1))

fetch(c) == [cpu |-> increment_pc(c), data |-> load_byte_at_pc(c)]

(***************************************************************************)
(* mod.rs: interrupt entry.                                                *)
(***************************************************************************)
\* the (vector, b_flag, side_effect_flags) of each kind of interrupt
InterruptParameters(kind) ==
    IF kind = "Break" THEN [vector |-> 65534, b_flag |-> 48, side_effect_flags |-> 4]
    ELSE IF kind = "Reset" THEN [vector |-> 65532, b_flag |-> 0, side_effect_flags |-> 0]
    ELSE IF kind = "IRQ" THEN [vector |-> 65534, b_flag |-> 32, side_effect_flags |-> 4]
    ELSE [vector |-> 65530, b_flag |-> 32, side_effect_flags |-> 4]

\* the address interrupt() pushes as the return address
InterruptReturnAddress(c) == c.registers.pc

\* interrupt pushing the status byte after the side-effect flags are set
interrupt_FlagsBeforePush(c, kind) ==
    LET k == InterruptParameters(kind)
        address == InterruptReturnAddress(c)
        Enter(c3) == [c3 EXCEPT !.registers.pc = LoadWord(c3, k.vector)]
        PushStatus(c2) == Enter(push(c2, BitOr(k.side_effect_flags, k.b_flag)))
        Flags(c2) == PushStatus([c2 EXCEPT !.registers.p = set_byte(k.side_effect_flags)])
        PushLow(c1) == Flags(push(c1, AsU8(address)))
    IN  PushLow(push(c, AsU8(Shr8(address))))

interrupt(c, kind) ==
    LET k == InterruptParameters(kind)
        address == InterruptReturnAddress(c)
        \* the three pushes, then the two assignments, each on the Cpu the step before left
        Enter(c3) == [c3 EXCEPT !.registers.pc = LoadWord(c3, k.vector),
                                !.registers.p = set_byte(k.side_effect_flags)]
        PushStatus(c2) == Enter(push(c2, BitOr(get_byte(c2.registers.p), k.b_flag)))
        PushLow(c1) == PushStatus(push(c1, AsU8(address)))
    IN  PushLow(push(c, AsU8(Shr8(address))))

set_pc(c, address) == [c EXCEPT !.registers.pc = address]

(***************************************************************************)
(* addressing_mode.rs                                                      *)
(***************************************************************************)
Implicit ==
    [kind |-> "Implicit", value |-> 0, address |-> 0, page_boundary_crossed |-> FALSE]

Accumulator ==
    [kind |-> "Accumulator", value |-> 0, address |-> 0, page_boundary_crossed |-> FALSE]

MemoryAccess(address, page_boundary_crossed) ==
    [kind |-> "MemoryAccess", value |-> 0, address |-> address,
     page_boundary_crossed |-> page_boundary_crossed]

\* the constructors return the Cpu after their fetches and the addressing mode built
\* (a local operator takes what a call returned as its parameter f, so that the
\* call is written once)
ImmediateNew(c) ==
    LET Built(f) ==
            [cpu |-> f.cpu,
             mode |-> [kind |-> "Immediate", value |-> f.data, address |-> 0,
                       page_boundary_crossed |-> FALSE]]
    IN  Built(fetch(c))

RelativeNew(c) ==
    LET Built(f) ==
            [cpu |-> f.cpu,
             mode |-> [kind |-> "Relative", value |-> f.data, address |-> 0,
                       page_boundary_crossed |-> FALSE]]
    IN  Built(fetch(c))

new_zero_page(c) ==
    LET Built(f) == [cpu |-> f.cpu, mode |-> MemoryAccess(f.data, FALSE)]
    IN  Built(fetch(c))

\* new_indexed_zero_page carrying into the high byte
new_indexed_zero_page_NoWrap(c, index) ==
    LET Built(f) == [cpu |-> f.cpu, mode |-> MemoryAccess(f.data + index, FALSE)]
    IN  Built(fetch(c))

new_indexed_zero_page(c, index) ==
    LET Built(f) == [cpu |-> f.cpu, mode |-> MemoryAccess(WrappingAdd8(f.data, index), FALSE)]
    IN  Built(fetch(c))

\* the operand word assembled high byte first
FetchWord_BigEndian(c) ==
    LET Word(f1, f2) == [cpu |-> f2.cpu, data |-> BitOr(f2.data, Shl8(f1.data))]
        Second(f1) == Word(f1, fetch(f1.cpu))
    IN  Second(fetch(c))

\* `cpu.fetch() as u16 | (cpu.fetch() as u16) << 8`
FetchWord(c) ==
    LET Word(f1, f2) == [cpu |-> f2.cpu, data |-> BitOr(f1.data, Shl8(f2.data))]
        Second(f1) == Word(f1, fetch(f1.cpu))
    IN  Second(fetch(c))

new_absolute(c) ==
    LET Built(f) == [cpu |-> f.cpu, mode |-> MemoryAccess(f.data, FALSE)]
    IN  Built(FetchWord(c))

\* new_indexed_absolute never reporting a page crossing
new_indexed_absolute_NeverCrossed(c, index) ==
    LET Built(f) == [cpu |-> f.cpu, mode |-> MemoryAccess(WrappingAdd16(f.data, index), FALSE)]
    IN  Built(FetchWord(c))

new_indexed_absolute(c, index) ==
    LET Built(f) ==
            LET address == f.data
                page_boundary_crossed ==
                    BitAnd(WrappingAdd16(address, index), 65280) # BitAnd(address, 65280)
            IN  [cpu |-> f.cpu,
                 mode |-> MemoryAccess(WrappingAdd16(address, index), page_boundary_crossed)]
    IN  Built(FetchWord(c))

new_indirect(c) ==
    LET Built(f, next) ==
            LET indirect_address == f.data
                address_lsb == load(f.cpu, indirect_address)
                address_msb == Shl8(load(f.cpu, next.data))
            IN  [cpu |-> next.cpu, mode |-> MemoryAccess(BitOr(address_lsb, address_msb), FALSE)]
        \* `indirect_address + 1`
        Successor(f) == Built(f, CheckedAdd16(f.cpu, f.data, 1))
    IN  Successor(FetchWord(c))

\* new_indexed_indirect taking the high byte at indirect_address + 1, past zero page
new_indexed_indirect_NoWrap(c, index) ==
    LET Built(f) ==
            LET indirect_address == WrappingAdd8(f.data, index)
                address_lsb == load(f.cpu, indirect_address)
                address_msb == Shl8(load(f.cpu, indirect_address + 1))
            IN  [cpu |-> f.cpu, mode |-> MemoryAccess(BitOr(address_lsb, address_msb), FALSE)]
    IN  Built(fetch(c))

new_indexed_indirect(c, index) ==
    LET Built(f) ==
            LET indirect_address == WrappingAdd8(f.data, index)
                address_lsb == load(f.cpu, indirect_address)
                address_msb == Shl8(load(f.cpu, WrappingAdd8(indirect_address, 1)))
            IN  [cpu |-> f.cpu, mode |-> MemoryAccess(BitOr(address_lsb, address_msb), FALSE)]
    IN  Built(fetch(c))

new_indirect_indexed(c, index) ==
    LET Built(f, base) ==
            LET page_boundary_crossed ==
                    BitAnd(WrappingAdd16(base, index), 65280) # BitAnd(base, 65280)
            IN  [cpu |-> f.cpu,
                 mode |-> MemoryAccess(WrappingAdd16(base, index), page_boundary_crossed)]
        Base(f) ==
            LET indirect_address == f.data
                address_lsb == load(f.cpu, indirect_address)
                address_msb == Shl8(load(f.cpu, WrappingAdd8(indirect_address, 1)))
            IN  Built(f, BitOr(address_lsb, address_msb))
    IN  Base(fetch(c))

\* AddressingMode::read
ModeRead(mode, c) ==
    IF mode.kind = "Accumulator" THEN c.registers.a
    ELSE IF mode.kind = "Immediate" \/ mode.kind = "Relative" THEN mode.value
    ELSE IF mode.kind = "MemoryAccess" THEN load(c, mode.address)
    ELSE 0

\* AddressingMode::write
ModeWrite(mode, c, data) ==
    IF mode.kind = "Accumulator" THEN [c EXCEPT !.registers.a = data]
    ELSE IF mode.kind = "MemoryAccess" THEN write(c, mode.address, data)
    ELSE c

\* AddressingMode::address
ModeAddress(mode) == IF mode.kind = "MemoryAccess" THEN mode.address ELSE 0

(***************************************************************************)
(* mod.rs: the decoder.                                                    *)
(***************************************************************************)
get_addressing_mode(c, opcode) ==
    LET col == BitAnd(opcode, 31)
        x == c.registers.x
        y == c.registers.y
    IN  IF opcode = 32 THEN new_absolute(c)
        ELSE IF opcode \in {128, 160, 192, 224} THEN ImmediateNew(c)
        ELSE IF col = 1 THEN new_indexed_indirect(c, x)
        ELSE IF opcode \in {130, 162, 194, 226} THEN ImmediateNew(c)
        ELSE IF col = 3 THEN new_indexed_zero_page(c, x)
        ELSE IF col = 4 THEN new_zero_page(c)
        ELSE IF col = 5 THEN new_zero_page(c)
        ELSE IF col = 6 THEN new_zero_page(c)
        ELSE IF col = 7 THEN new_zero_page(c)
        ELSE IF col = 9 THEN ImmediateNew(c)
        ELSE IF opcode \in {10, 42, 74, 106} THEN [cpu |-> c, mode |-> Accumulator]
        ELSE IF opcode = 108 THEN new_indirect(c)
        ELSE IF col = 12 THEN new_absolute(c)
        ELSE IF col = 13 THEN new_absolute(c)
        ELSE IF col = 14 THEN new_absolute(c)
        ELSE IF col = 15 THEN new_absolute(c)
        ELSE IF col = 16 THEN RelativeNew(c)
        ELSE IF col = 17 THEN new_indirect_indexed(c, y)
        ELSE IF col = 19 THEN new_indirect_indexed(c, y)
        ELSE IF col = 20 THEN new_indexed_zero_page(c, x)
        ELSE IF col = 21 THEN new_indexed_zero_page(c, x)
        ELSE IF opcode \in {150, 182} THEN new_indexed_zero_page(c, y)
        ELSE IF col = 22 THEN new_indexed_zero_page(c, x)
        ELSE IF opcode \in {151, 183} THEN new_indexed_zero_page(c, y)
        ELSE IF col = 23 THEN new_indexed_zero_page(c, x)
        ELSE IF col = 25 THEN new_indexed_absolute(c, y)
        ELSE IF col = 27 THEN new_indexed_absolute(c, y)
        ELSE IF col = 28 THEN new_indexed_absolute(c, x)
        ELSE IF col = 29 THEN new_indexed_absolute(c, x)
        ELSE IF opcode \in {158, 190} THEN new_indexed_absolute(c, y)
        ELSE IF col = 30 THEN new_indexed_absolute(c, x)
        ELSE IF opcode \in {159, 191} THEN new_indexed_absolute(c, y)
        ELSE IF col = 31 THEN new_indexed_absolute(c, x)
        ELSE [cpu |-> c, mode |-> Implicit]

get_wait_cycles(opcode, page_boundary_crossed) ==
    IF opcode = 0 THEN 7
    ELSE IF opcode \in {64, 96, 32} THEN 6
    ELSE IF opcode \in {8, 72} THEN 3
    ELSE IF opcode \in {40, 104} THEN 4
    ELSE IF opcode = 76 THEN 3
    ELSE IF opcode \in {173, 174, 172, 77, 45, 13, 109, 237, 205, 44, 12, 204, 236} THEN 4
    ELSE IF opcode \in {14, 78, 46, 110, 238, 206} THEN 6
    ELSE IF opcode \in {141, 142, 140} THEN 4
    ELSE IF opcode \in {165, 166, 164, 69, 37, 5, 101, 229, 197, 36, 4, 68, 100, 196, 228} THEN 3
    ELSE IF opcode \in {6, 70, 38, 102, 230, 198} THEN 5
    ELSE IF opcode \in {133, 134, 132} THEN 3
    ELSE IF opcode \in {181, 182, 180, 85, 53, 21, 117, 245, 213, 52, 20, 84, 116, 212, 244} THEN 4
    ELSE IF opcode \in {22, 86, 54, 118, 246, 214} THEN 6
    ELSE IF opcode \in {149, 150, 148} THEN 4
    ELSE IF opcode \in {188, 25, 29, 57, 61, 89, 93, 121, 125, 185, 189, 217, 221, 249, 253,
                        190, 28, 60, 92, 124, 220, 252}
         THEN (IF page_boundary_crossed THEN 5 ELSE 4)
    ELSE IF opcode \in {30, 62, 94, 126, 222, 254} THEN 7
    ELSE IF opcode \in {153, 157} THEN 5
    ELSE IF opcode \in {16, 48, 80, 112, 144, 176, 208, 240} THEN 2
    ELSE IF opcode \in {1, 33, 65, 97, 161, 193, 225} THEN 6
    ELSE IF opcode = 129 THEN 6
    ELSE IF opcode \in {17, 49, 81, 113, 177, 209, 241} THEN (IF page_boundary_crossed THEN 6 ELSE 5)
    ELSE IF opcode = 145 THEN 6
    ELSE IF opcode = 108 THEN 5
    ELSE 2

(***************************************************************************)
(* instructions.rs: every instruction returns the Cpu after it and its     *)
(* InstructionResult.                                                      *)
(***************************************************************************)
ResultOk == [kind |-> "Ok", cycles |-> 0]
ResultNOP == [kind |-> "NOP", cycles |-> 0]
ResultBranch(n) == [kind |-> "Branch", cycles |-> n]
ResultOAMDMA == [kind |-> "OAMDMA", cycles |-> 0]

set_status_carry(c, status) == [c EXCEPT !.registers.p.carry = status]
set_status_zero(c, status) == [c EXCEPT !.registers.p.zero = status]
set_status_interupt_disable(c, status) == [c EXCEPT !.registers.p.interrupt_disable = status]
set_status_decimal(c, status) == [c EXCEPT !.registers.p.decimal = status]
set_status_overflow(c, status) == [c EXCEPT !.registers.p.overflow = status]
set_status_negative(c, status) == [c EXCEPT !.registers.p.negative = status]

\* set_status_zero(data == 0) followed by set_status_negative(data & 0x80 == 0x80)
SetZeroNegative(c, data) ==
    set_status_negative(set_status_zero(c, data = 0), BitAnd(data, 128) = 128)

load_instruction(c, data, dest) ==
    LET f == SetZeroNegative(c, data)
    IN  IF dest = "Accumulator" THEN [f EXCEPT !.registers.a = data]
        ELSE IF dest = "X" THEN [f EXCEPT !.registers.x = data]
        ELSE [f EXCEPT !.registers.y = data]

lda(c, mode) == [cpu |-> load_instruction(c, ModeRead(mode, c), "Accumulator"), result |-> ResultOk]
ldx(c, mode) == [cpu |-> load_instruction(c, ModeRead(mode, c), "X"), result |-> ResultOk]
ldy(c, mode) == [cpu |-> load_instruction(c, ModeRead(mode, c), "Y"), result |-> ResultOk]

store_instruction(c, src) ==
    IF src = "Accumulator" THEN c.registers.a
    ELSE IF src = "X" THEN c.registers.x
    ELSE c.registers.y

sta(c, mode) == [cpu |-> ModeWrite(mode, c, store_instruction(c, "Accumulator")), result |-> ResultOk]
stx(c, mode) == [cpu |-> ModeWrite(mode, c, store_instruction(c, "X")), result |-> ResultOk]
sty(c, mode) == [cpu |-> ModeWrite(mode, c, store_instruction(c, "Y")), result |-> ResultOk]

tax(c, mode) ==
    [cpu |-> [SetZeroNegative(c, c.registers.a) EXCEPT !.registers.x = c.registers.a],
     result |-> ResultOk]
tay(c, mode) ==
    [cpu |-> [SetZeroNegative(c, c.registers.a) EXCEPT !.registers.y = c.registers.a],
     result |-> ResultOk]
txa(c, mode) ==
    [cpu |-> [SetZeroNegative(c, c.registers.x) EXCEPT !.registers.a = c.registers.x],
     result |-> ResultOk]
tya(c, mode) ==
    [cpu |-> [SetZeroNegative(c, c.registers.y) EXCEPT !.registers.a = c.registers.y],
     result |-> ResultOk]
tsx(c, mode) ==
    [cpu |-> [SetZeroNegative(c, c.registers.stack_pointer)
                 EXCEPT !.registers.x = c.registers.stack_pointer],
     result |-> ResultOk]
txs(c, mode) ==
    [cpu |-> [c EXCEPT !.registers.stack_pointer = c.registers.x], result |-> ResultOk]

pha(c, mode) == [cpu |-> push(c, c.registers.a), result |-> ResultOk]

\* php without the B and unused bits
php_NoBreakBits(c, mode) == [cpu |-> push(c, get_byte(c.registers.p)), result |-> ResultOk]

php(c, mode) == [cpu |-> push(c, BitOr(get_byte(c.registers.p), 48)), result |-> ResultOk]

\* pla leaving the flags alone
pla_NoFlags(c, mode) ==
    LET Pulled(q) == [cpu |-> [q.cpu EXCEPT !.registers.a = q.data], result |-> ResultOk]
    IN  Pulled(pop(c))

pla(c, mode) ==
    LET Pulled(q) ==
            [cpu |-> SetZeroNegative([q.cpu EXCEPT !.registers.a = q.data], q.data),
             result |-> ResultOk]
    IN  Pulled(pop(c))

plp(c, mode) ==
    LET Pulled(q) ==
            [cpu |-> [q.cpu EXCEPT !.registers.p = set_byte(BitAnd(q.data, 207))],
             result |-> ResultOk]
    IN  Pulled(pop(c))

\* and leaving the accumulator as it was, flags from A & M
and_KeepsA(c, mode) ==
    [cpu |-> SetZeroNegative(c, BitAnd(c.registers.a, ModeRead(mode, c))), result |-> ResultOk]

and(c, mode) ==
    LET c1 == [c EXCEPT !.registers.a = BitAnd(c.registers.a, ModeRead(mode, c))]
    IN  [cpu |-> SetZeroNegative(c1, c1.registers.a), result |-> ResultOk]

ora(c, mode) ==
    LET c1 == [c EXCEPT !.registers.a = BitOr(c.registers.a, ModeRead(mode, c))]
    IN  [cpu |-> SetZeroNegative(c1, c1.registers.a), result |-> ResultOk]

eor(c, mode) ==
    LET c1 == [c EXCEPT !.registers.a = BitXor(c.registers.a, ModeRead(mode, c))]
    IN  [cpu |-> SetZeroNegative(c1, c1.registers.a), result |-> ResultOk]

bit(c, mode) ==
    LET data == ModeRead(mode, c)
        c1 == set_status_zero(c, BitAnd(c.registers.a, data) = 0)
        c2 == set_status_negative(c1, BitAnd(data, 128) = 128)
    IN  [cpu |-> set_status_overflow(c2, BitAnd(data, 64) = 64), result |-> ResultOk]

\* adc without the carry in
adc_NoCarryIn(c, mode) ==
    LET val == ModeRead(mode, c)
        a == c.registers.a
        result == a + val
        r8 == AsU8(result)
        c1 == set_status_carry(c, result > 255)
        c2 == set_status_zero(c1, r8 = 0)
        c3 == set_status_overflow(c2,
                  BitAnd(BitAnd(BitXor(a, r8), BitXor(val, r8)), 128) = 128)
        c4 == set_status_negative(c3, BitAnd(r8, 128) = 128)
    IN  [cpu |-> [c4 EXCEPT !.registers.a = r8], result |-> ResultOk]

adc(c, mode) ==
    LET val == ModeRead(mode, c)
        a == c.registers.a
        result == a + val + BoolAsU8(c.registers.p.carry)
        r8 == AsU8(result)
        c1 == set_status_carry(c, result > 255)
        c2 == set_status_zero(c1, r8 = 0)
        c3 == set_status_overflow(c2,
                  BitAnd(BitAnd(BitXor(a, r8), BitXor(val, r8)), 128) = 128)
        c4 == set_status_negative(c3, BitAnd(r8, 128) = 128)
    IN  [cpu |-> [c4 EXCEPT !.registers.a = r8], result |-> ResultOk]

sbc(c, mode) ==
    LET val == ModeRead(mode, c)
        a == c.registers.a
        result == WrappingSub16(WrappingSub16(a, val), BoolAsU8(~c.registers.p.carry))
        r8 == AsU8(result)
        c1 == set_status_carry(c, result <= 255)
        c2 == set_status_zero(c1, r8 = 0)
        c3 == set_status_overflow(c2,
                  BitAnd(BitAnd(BitXor(a, r8), BitXor(val, r8)), 128) = 128)
        c4 == set_status_negative(c3, BitAnd(r8, 128) = 128)
    IN  [cpu |-> [c4 EXCEPT !.registers.a = r8], result |-> ResultOk]

\* compare with N set when the register is below the operand
compare_NegativeIsLess(c, mode, reg) ==
    LET result == reg - ModeRead(mode, c)
        c1 == set_status_carry(c, result >= 0)
        c2 == set_status_zero(c1, result = 0)
    IN  [cpu |-> set_status_negative(c2, result < 0), result |-> ResultOk]

\* cmp, cpx and cpy on the register value reg: `result: i16 = reg as i16 - read as i16`
compare(c, mode, reg) ==
    LET result == reg - ModeRead(mode, c)
        c1 == set_status_carry(c, result >= 0)
        c2 == set_status_zero(c1, result = 0)
    IN  [cpu |-> set_status_negative(c2, BitAnd((result + U16) % U16, 128) = 128),
         result |-> ResultOk]

cmp(c, mode) == compare(c, mode, c.registers.a)
cpx(c, mode) == compare(c, mode, c.registers.x)
cpy(c, mode) == compare(c, mode, c.registers.y)

inc(c, mode) ==
    LET data == ModeRead(mode, c)
        c1 == SetZeroNegative(c, WrappingAdd8(data, 1))
    IN  [cpu |-> ModeWrite(mode, c1, WrappingAdd8(data, 1)), result |-> ResultOk]

inx(c, mode) ==
    LET c1 == [c EXCEPT !.registers.x = WrappingAdd8(c.registers.x, 1)]
    IN  [cpu |-> SetZeroNegative(c1, c1.registers.x), result |-> ResultOk]

iny(c, mode) ==
    LET c1 == [c EXCEPT !.registers.y = WrappingAdd8(c.registers.y, 1)]
    IN  [cpu |-> SetZeroNegative(c1, c1.registers.y), result |-> ResultOk]

dec(c, mode) ==
    LET data == ModeRead(mode, c)
        c1 == SetZeroNegative(c, WrappingSub8(data, 1))
    IN  [cpu |-> ModeWrite(mode, c1, WrappingSub8(data, 1)), result |-> ResultOk]

dex(c, mode) ==
    LET c1 == [c EXCEPT !.registers.x = WrappingSub8(c.registers.x, 1)]
    IN  [cpu |-> SetZeroNegative(c1, c1.registers.x), result |-> ResultOk]

dey(c, mode) ==
    LET c1 == [c EXCEPT !.registers.y = WrappingSub8(c.registers.y, 1)]
    IN  [cpu |-> SetZeroNegative(c1, c1.registers.y), result |-> ResultOk]

asl(c, mode) ==
    LET data == ModeRead(mode, c)
        c1 == set_status_carry(c, BitAnd(data, 128) = 128)
        result == (data * 2) % U8
        c2 == SetZeroNegative(c1, result)
    IN  [cpu |-> ModeWrite(mode, c2, result), result |-> ResultOk]

lsr(c, mode) ==
    LET data == ModeRead(mode, c)
        c1 == set_status_carry(c, BitAnd(data, 1) = 1)
        result == data \div 2
        c2 == SetZeroNegative(c1, result)
    IN  [cpu |-> ModeWrite(mode, c2, result), result |-> ResultOk]

rol(c, mode) ==
    LET data == ModeRead(mode, c)
        old_carry == BoolAsU8(c.registers.p.carry)
        c1 == set_status_carry(c, BitAnd(data, 128) = 128)
        result == BitOr((data * 2) % U8, old_carry)
        c2 == SetZeroNegative(c1, result)
    IN  [cpu |-> ModeWrite(mode, c2, result), result |-> ResultOk]

ror(c, mode) ==
    LET data == ModeRead(mode, c)
        old_carry == BoolAsU8(c.registers.p.carry) * 128
        c1 == set_status_carry(c, BitAnd(data, 1) = 1)
        result == BitOr(data \div 2, old_carry)
        c2 == SetZeroNegative(c1, result)
    IN  [cpu |-> ModeWrite(mode, c2, result), result |-> ResultOk]

jmp(c, mode) == [cpu |-> [c EXCEPT !.registers.pc = ModeAddress(mode)], result |-> ResultOk]

\* jsr pushing the address after the operand
jsr_PushesPc(c, mode) ==
    LET address == c.registers.pc
        Jump(c2) == [cpu |-> [c2 EXCEPT !.registers.pc = ModeAddress(mode)], result |-> ResultOk]
        PushLow(c1) == Jump(push(c1, AsU8(address)))
    IN  PushLow(push(c, AsU8(Shr8(address))))

jsr(c, mode) ==
    LET address == WrappingSub16(c.registers.pc, 1)
        Jump(c2) == [cpu |-> [c2 EXCEPT !.registers.pc = ModeAddress(mode)], result |-> ResultOk]
        PushLow(c1) == Jump(push(c1, AsU8(address)))
    IN  PushLow(push(c, AsU8(Shr8(address))))

\* rts popping the high byte of the return address first
rts_HighFirst(c, mode) ==
    LET Return(q1, q2) ==
            [cpu |-> [q2.cpu EXCEPT
                        !.registers.pc = WrappingAdd16(BitOr(q2.data, Shl8(q1.data)), 1)],
             result |-> ResultOk]
        PopLow(q1) == Return(q1, pop(q1.cpu))
    IN  PopLow(pop(c))

rts(c, mode) ==
    LET Return(q1, q2) ==
            [cpu |-> [q2.cpu EXCEPT
                        !.registers.pc = WrappingAdd16(BitOr(q1.data, Shl8(q2.data)), 1)],
             result |-> ResultOk]
        PopHigh(q1) == Return(q1, pop(q1.cpu))
    IN  PopHigh(pop(c))

\* branch without the extra cycle of a page change
branch_NoPagePenalty(c, mode, taken) ==
    IF taken
    THEN LET old_pc == c.registers.pc
             offset == AsI8(ModeRead(mode, c))
             new_pc == (old_pc + offset + U16) % U16
         IN  [cpu |-> [c EXCEPT !.registers.pc = new_pc], result |-> ResultBranch(1)]
    ELSE [cpu |-> c, result |-> ResultNOP]

\* the eight branch instructions, on their predicate
branch(c, mode, taken) ==
    IF taken
    THEN LET old_pc == c.registers.pc
             offset == AsI8(ModeRead(mode, c))
             new_pc == (old_pc + offset + U16) % U16
         IN  [cpu |-> [c EXCEPT !.registers.pc = new_pc],
              result |-> ResultBranch(IF BitAnd(old_pc, 65280) = BitAnd(new_pc, 65280)
                                      THEN 1 ELSE 2)]
    ELSE [cpu |-> c, result |-> ResultNOP]

bcc(c, mode) == branch(c, mode, ~c.registers.p.carry)
bcs(c, mode) == branch(c, mode, c.registers.p.carry)
beq(c, mode) == branch(c, mode, c.registers.p.zero)
bmi(c, mode) == branch(c, mode, c.registers.p.negative)
bne(c, mode) == branch(c, mode, ~c.registers.p.zero)
bpl(c, mode) == branch(c, mode, ~c.registers.p.negative)
bvc(c, mode) == branch(c, mode, ~c.registers.p.overflow)
bvs(c, mode) == branch(c, mode, c.registers.p.overflow)

clc(c, mode) == [cpu |-> set_status_carry(c, FALSE), result |-> ResultOk]
cld(c, mode) == [cpu |-> set_status_decimal(c, FALSE), result |-> ResultOk]
cli(c, mode) == [cpu |-> set_status_interupt_disable(c, FALSE), result |-> ResultOk]
clv(c, mode) == [cpu |-> set_status_overflow(c, FALSE), result |-> ResultOk]
sec(c, mode) == [cpu |-> set_status_carry(c, TRUE), result |-> ResultOk]
sed(c, mode) == [cpu |-> set_status_decimal(c, TRUE), result |-> ResultOk]
sei(c, mode) == [cpu |-> set_status_interupt_disable(c, TRUE), result |-> ResultOk]

brk(c, mode) == [cpu |-> interrupt(c, "Break"), result |-> ResultOk]

\* rti adding 1 to the popped address, as rts does
rti_AddsOne(c, mode) ==
    LET Return(q2, q3) ==
            [cpu |-> [q3.cpu EXCEPT
                        !.registers.pc = WrappingAdd16(BitOr(q2.data, Shl8(q3.data)), 1)],
             result |-> ResultOk]
        PopHigh(q2) == Return(q2, pop(q2.cpu))
        PopLow(q1) == PopHigh(pop([q1.cpu EXCEPT !.registers.p = set_byte(q1.data)]))
    IN  PopLow(pop(c))

rti(c, mode) ==
    LET Return(q2, q3) ==
            [cpu |-> [q3.cpu EXCEPT !.registers.pc = BitOr(q2.data, Shl8(q3.data))],
             result |-> ResultOk]
        PopHigh(q2) == Return(q2, pop(q2.cpu))
        PopLow(q1) == PopHigh(pop([q1.cpu EXCEPT !.registers.p = set_byte(q1.data)]))
    IN  PopLow(pop(c))

(***************************************************************************)
(* mod.rs: execute_instruction, trace and clock.                           *)
(***************************************************************************)
\* `x & 0xE0 == hi && x & 0x03 == lo`
Group(opcode, hi, lo) == BitAnd(opcode, 224) = hi /\ BitAnd(opcode, 3) = lo

\* the arm of execute_instruction's match that an opcode takes
InstructionOf(opcode) ==
    IF opcode = 0 THEN "brk"
    ELSE IF opcode = 64 THEN "rti"
    ELSE IF opcode = 96 THEN "rts"
    ELSE IF opcode = 8 THEN "php"
    ELSE IF opcode = 40 THEN "plp"
    ELSE IF opcode = 72 THEN "pha"
    ELSE IF opcode = 104 THEN "pla"
    ELSE IF opcode \in {76, 108} THEN "jmp"
    ELSE IF opcode = 32 THEN "jsr"
    ELSE IF opcode = 16 THEN "bpl"
    ELSE IF opcode = 48 THEN "bmi"
    ELSE IF opcode = 80 THEN "bvc"
    ELSE IF opcode = 112 THEN "bvs"
    ELSE IF opcode = 144 THEN "bcc"
    ELSE IF opcode = 176 THEN "bcs"
    ELSE IF opcode = 208 THEN "bne"
    ELSE IF opcode = 240 THEN "beq"
    ELSE IF opcode = 24 THEN "clc"
    ELSE IF opcode = 56 THEN "sec"
    ELSE IF opcode = 88 THEN "cli"
    ELSE IF opcode = 120 THEN "sei"
    ELSE IF opcode = 136 THEN "dey"
    ELSE IF opcode = 152 THEN "tya"
    ELSE IF opcode = 168 THEN "tay"
    ELSE IF opcode = 184 THEN "clv"
    ELSE IF opcode = 200 THEN "iny"
    ELSE IF opcode = 202 THEN "dex"
    ELSE IF opcode = 216 THEN "cld"
    ELSE IF opcode = 232 THEN "inx"
    ELSE IF opcode = 248 THEN "sed"
    ELSE IF opcode \in {128, 4, 68, 100, 12, 20, 52, 84, 116, 212, 244,
                        28, 60, 92, 124, 220, 252} THEN "NOP"
    ELSE IF opcode = 156 THEN "NOP"
    ELSE IF Group(opcode, 32, 0) THEN "bit"
    ELSE IF Group(opcode, 128, 0) THEN "sty"
    ELSE IF Group(opcode, 160, 0) THEN "ldy"
    ELSE IF Group(opcode, 192, 0) THEN "cpy"
    ELSE IF Group(opcode, 224, 0) THEN "cpx"
    ELSE IF opcode = 137 THEN "NOP"
    ELSE IF Group(opcode, 0, 1) THEN "ora"
    ELSE IF Group(opcode, 32, 1) THEN "and"
    ELSE IF Group(opcode, 64, 1) THEN "eor"
    ELSE IF Group(opcode, 96, 1) THEN "adc"
    ELSE IF Group(opcode, 128, 1) THEN "sta"
    ELSE IF Group(opcode, 160, 1) THEN "lda"
    ELSE IF Group(opcode, 192, 1) THEN "cmp"
    ELSE IF Group(opcode, 224, 1) THEN "sbc"
    ELSE IF opcode = 138 THEN "txa"
    ELSE IF opcode = 170 THEN "tax"
    ELSE IF opcode = 154 THEN "txs"
    ELSE IF opcode = 186 THEN "tsx"
    ELSE IF opcode \in {130, 194, 226, 234, 26, 58, 90, 122, 218, 250} THEN "NOP"
    ELSE IF opcode \in {2, 34, 66, 98, 18, 49, 82, 114, 146, 178, 210, 242, 158} THEN "NOP"
    ELSE IF Group(opcode, 0, 2) THEN "asl"
    ELSE IF Group(opcode, 32, 2) THEN "rol"
    ELSE IF Group(opcode, 64, 2) THEN "lsr"
    ELSE IF Group(opcode, 96, 2) THEN "ror"
    ELSE IF Group(opcode, 128, 2) THEN "stx"
    ELSE IF Group(opcode, 160, 2) THEN "ldx"
    ELSE IF Group(opcode, 192, 2) THEN "dec"
    ELSE IF Group(opcode, 224, 2) THEN "inc"
    ELSE "NOP"

\* the call made by the arm
Instruction(name, c, mode) ==
    CASE name = "brk" -> brk(c, mode)
      [] name = "rti" -> rti(c, mode)
      [] name = "rts" -> rts(c, mode)
      [] name = "php" -> php(c, mode)
      [] name = "plp" -> plp(c, mode)
      [] name = "pha" -> pha(c, mode)
      [] name = "pla" -> pla(c, mode)
      [] name = "jmp" -> jmp(c, mode)
      [] name = "jsr" -> jsr(c, mode)
      [] name = "bpl" -> bpl(c, mode)
      [] name = "bmi" -> bmi(c, mode)
      [] name = "bvc" -> bvc(c, mode)
      [] name = "bvs" -> bvs(c, mode)
      [] name = "bcc" -> bcc(c, mode)
      [] name = "bcs" -> bcs(c, mode)
      [] name = "bne" -> bne(c, mode)
      [] name = "beq" -> beq(c, mode)
      [] name = "clc" -> clc(c, mode)
      [] name = "sec" -> sec(c, mode)
      [] name = "cli" -> cli(c, mode)
      [] name = "sei" -> sei(c, mode)
      [] name = "dey" -> dey(c, mode)
      [] name = "tya" -> tya(c, mode)
      [] name = "tay" -> tay(c, mode)
      [] name = "clv" -> clv(c, mode)
      [] name = "iny" -> iny(c, mode)
      [] name = "dex" -> dex(c, mode)
      [] name = "cld" -> cld(c, mode)
      [] name = "inx" -> inx(c, mode)
      [] name = "sed" -> sed(c, mode)
      [] name = "bit" -> bit(c, mode)
      [] name = "sty" -> sty(c, mode)
      [] name = "ldy" -> ldy(c, mode)
      [] name = "cpy" -> cpy(c, mode)
      [] name = "cpx" -> cpx(c, mode)
      [] name = "ora" -> ora(c, mode)
      [] name = "and" -> and(c, mode)
      [] name = "eor" -> eor(c, mode)
      [] name = "adc" -> adc(c, mode)
      [] name = "sta" -> sta(c, mode)
      [] name = "lda" -> lda(c, mode)
      [] name = "cmp" -> cmp(c, mode)
      [] name = "sbc" -> sbc(c, mode)
      [] name = "txa" -> txa(c, mode)
      [] name = "tax" -> tax(c, mode)
      [] name = "txs" -> txs(c, mode)
      [] name = "tsx" -> tsx(c, mode)
      [] name = "asl" -> asl(c, mode)
      [] name = "rol" -> rol(c, mode)
      [] name = "lsr" -> lsr(c, mode)
      [] name = "ror" -> ror(c, mode)
      [] name = "stx" -> stx(c, mode)
      [] name = "ldx" -> ldx(c, mode)
      [] name = "dec" -> dec(c, mode)
      [] name = "inc" -> inc(c, mode)
      [] OTHER -> [cpu |-> c, result |-> ResultNOP]

\* the penalty sum with the OAM DMA stall given to InstructionResult::NOP
ResultCycles_NopStalls(c, result) ==
    IF result.kind = "Branch" THEN result.cycles
    ELSE IF result.kind = "NOP" THEN (IF c.cycles % 2 = 1 THEN 514 ELSE 513)
    ELSE 0

\* the cycles an InstructionResult adds to get_wait_cycles' value
ResultCycles(c, result) ==
    IF result.kind = "Branch" THEN result.cycles
    ELSE IF result.kind = "OAMDMA" THEN (IF c.cycles % 2 = 1 THEN 514 ELSE 513)
    ELSE 0

\* returns the Cpu after the instruction and the number of cycles to wait
execute_instruction(c, opcode) ==
    LET Cycles(wait, i) ==
            [cpu |-> i.cpu, data |-> wait + ResultCycles(i.cpu, i.result)]
        Execute(addressing_mode) ==
            Cycles(get_wait_cycles(opcode, addressing_mode.mode.page_boundary_crossed),
                   Instruction(InstructionOf(opcode), addressing_mode.cpu, addressing_mode.mode))
    IN  Execute(get_addressing_mode(c, opcode))

\* trace() prints one line and changes nothing; its `pc + 1` and `pc + 2` can overflow
trace(c) == CheckedAdd16(CheckedAdd16(c, c.registers.pc, 1).cpu, c.registers.pc, 2).cpu

\* the wait_cycles == 0 arm of clock()
ClockDecode(c) ==
    LET Wait(e) == [e.cpu EXCEPT !.wait_cycles = e.data]
        Execute(f) == Wait(execute_instruction(f.cpu, f.data))
    IN  Execute(fetch(trace(c)))

\* a wait tick that also moves the program counter
ClockWait_MovesPc(c) ==
    [c EXCEPT !.wait_cycles = c.wait_cycles - 1,
              !.registers.pc = WrappingAdd16(c.registers.pc, 1)]

\* the other arm
ClockWait(c) == [c EXCEPT !.wait_cycles = c.wait_cycles - 1]

\* a clock() that counts the cycle on wait ticks only
clock_NoTickOnDecode(c) ==
    IF c.wait_cycles = 0
    THEN ClockDecode(c)
    ELSE [ClockWait(c) EXCEPT !.cycles = c.cycles + 1]

clock(c) ==
    LET Tick(c1) == [c1 EXCEPT !.cycles = c1.cycles + 1]
    IN  Tick(IF c.wait_cycles = 0 THEN ClockDecode(c) ELSE ClockWait(c))

(***************************************************************************)
(* mod.rs: construction.                                                   *)
(***************************************************************************)
\* the address Cpu::new reads the initial PC from
NewVector == 65534

CpuNew(cart) ==
    LET c == [registers |-> RegistersNew, cycles |-> 7, wait_cycles |-> 0,
              zero_page_ram |-> ZeroArray, stack |-> ZeroArray, internal_ram |-> ZeroArray,
              cartridge |-> cart, panicked |-> FALSE]
    IN  [c EXCEPT !.registers.pc = LoadWord(c, NewVector)]

(***************************************************************************)
(* The cartridges of the model: the dummy mapper, and NROM cartridges      *)
(* whose PRG holds one instruction (opcode and two operand bytes) at the   *)
(* address the 0xFFFE vector points to, a different word in the 0xFFFC     *)
(* vector, and zeroes (BRK) everywhere else.                               *)
(***************************************************************************)
Opcodes == 0..255
OperandLows == {4, 255}
OperandHighs == {2, 255}
Entries == {33021}
\* the word in the reset vector of every image: 0x9000
ResetWord == 36864

\* the index in NROM's rom of a CPU address (0x8000..=0xFFFF)
RomIndex(prg_banks, address) == (address - 32768) % (prg_banks * 16384)

\* PRG bytes given as address -> byte
Prg(prg_banks, bytes) ==
    LET idx == {RomIndex(prg_banks, a) : a \in {b \in DOMAIN bytes : bytes[b] # 0}}
    IN  [i \in idx |-> bytes[CHOOSE a \in DOMAIN bytes : RomIndex(prg_banks, a) = i /\ bytes[a] # 0]]

Image(prg_banks, entry, opcode, b1, b2) ==
    LET code == [a \in {entry, entry + 1, entry + 2} |->
                    IF a = entry THEN opcode ELSE IF a = entry + 1 THEN b1 ELSE b2]
        vectors == [a \in 65532..65535 |->
                    IF a = 65532 THEN AsU8(ResetWord)
                    ELSE IF a = 65533 THEN Shr8(ResetWord)
                    ELSE IF a = 65534 THEN AsU8(entry)
                    ELSE Shr8(entry)]
        bytes == [a \in (DOMAIN vectors) \cup (DOMAIN code) |->
                    IF a \in DOMAIN code /\ a < 65532 THEN code[a] ELSE vectors[a]]
    IN  NROMNew(prg_banks, Prg(prg_banks, bytes))

\* an image whose 0xFFFE vector points into the last bytes of the address space
TopImage(prg_banks, entry) ==
    LET vectors == [a \in 65532..65535 |->
                    IF a = 65532 THEN AsU8(ResetWord)
                    ELSE IF a = 65533 THEN Shr8(ResetWord)
                    ELSE IF a = 65534 THEN AsU8(entry)
                    ELSE Shr8(entry)]
    IN  NROMNew(prg_banks, Prg(prg_banks, vectors))

CartridgeInputs ==
    {DummyMapperNew}
        \cup {Image(1, e, op, b1, b2) : e \in Entries, op \in Opcodes,
                                       b1 \in OperandLows, b2 \in OperandHighs}
        \cup {TopImage(n, e) : n \in {1, 2}, e \in {65533, 65534, 65535}}

\* the addresses the driver passes to set_pc
PcInputs == {49152}

(***************************************************************************)
(* The record of the last call.                                            *)
(***************************************************************************)
Call(op, returned, decode, opcode, address, data, before, cart, n) ==
    [op |-> op, returned |-> returned, decode |-> decode, opcode |-> opcode,
     address |-> address, data |-> data, before |-> before, cart |-> cart, n |-> n]

NoDecode == [valid |-> FALSE, at |-> 0, cost |-> 0]

SetCpu(c) ==
    /\ registers' = c.registers
    /\ cycles' = c.cycles
    /\ wait_cycles' = c.wait_cycles
    /\ zero_page_ram' = c.zero_page_ram
    /\ stack' = c.stack
    /\ internal_ram' = c.internal_ram
    /\ cartridge' = c.cartridge

InitWith(carts) ==
    /\ overflow_checks \in BOOLEAN
    /\ \E cart \in carts :
        LET c == CpuNew(cart)
        IN  /\ registers = c.registers
            /\ cycles = c.cycles
            /\ wait_cycles = c.wait_cycles
            /\ zero_page_ram = c.zero_page_ram
            /\ stack = c.stack
            /\ internal_ram = c.internal_ram
            /\ cartridge = c.cartridge
    /\ aborted = FALSE
    /\ last = Call("new", TRUE, FALSE, 0, 0, 0, RegistersNew, <<>>, 0)
    /\ decoded = NoDecode

(***************************************************************************)
(* The driver of main.rs: new, set_pc, then clock() again and again.       *)
(***************************************************************************)
Init == InitWith(CartridgeInputs)

SetPc ==
    /\ ~aborted
    /\ last.op = "new"
    /\ \E address \in PcInputs :
        /\ SetCpu(set_pc(Self, address))
        /\ last' = Call("set_pc", TRUE, FALSE, 0, address, 0, registers, <<>>, last.n + 1)
    /\ UNCHANGED <<overflow_checks, aborted, decoded>>

Clock ==
    /\ ~aborted
    /\ cycles < MaxCycles
    /\ \E c \in {clock(Self)} :
        LET decode == wait_cycles = 0
            opcode == IF decode THEN load_byte_at_pc(Self) ELSE 0
        IN  IF c.panicked
            THEN /\ aborted' = TRUE
                 /\ last' = Call("clock", FALSE, FALSE, 0, 0, 0, registers, <<>>, last.n + 1)
                 /\ UNCHANGED <<cpu_fields, decoded>>
            ELSE /\ SetCpu(c)
                 /\ last' = Call("clock", TRUE, decode, opcode, 0, c.wait_cycles,
                                 registers, <<>>, last.n + 1)
                 /\ decoded' = IF decode
                               THEN [valid |-> TRUE, at |-> cycles, cost |-> c.wait_cycles]
                               ELSE decoded
                 /\ UNCHANGED aborted
    /\ UNCHANGED overflow_checks

Next == SetPc \/ Clock

Spec == Init /\ [][Next]_vars

(***************************************************************************)
(* The address space on its own: load() and write() called on a new Cpu.   *)
(***************************************************************************)
MemAddrs == {255, 2303, 256, 6400, 4607, 512, 2047, 8191,
             8192, 16383, 16404, 16416, 16639, 16640, 24576, 65535}
MemData == {90, 255}

MemCartridges == {DummyMapperNew, Image(1, 32768, 169, 4, 0)}

MemInit == InitWith(MemCartridges)

DoLoad ==
    /\ ~aborted
    /\ last.n < MaxMemOps
    /\ \E address \in MemAddrs :
        last' = Call("load", TRUE, FALSE, 0, address, load(Self, address), registers,
                     CartridgeCalls(corresponding_address_space(address), "read", 0),
                     last.n + 1)
    /\ UNCHANGED <<cpu_fields, overflow_checks, aborted, decoded>>

DoWrite ==
    /\ ~aborted
    /\ last.n < MaxMemOps
    /\ \E address \in MemAddrs, data \in MemData :
        /\ \E c \in {write(Self, address, data)} : SetCpu(c)
        /\ last' = Call("write", TRUE, FALSE, 0, address, data, registers,
                        CartridgeCalls(corresponding_address_space(address), "write", data),
                        last.n + 1)
    /\ UNCHANGED <<overflow_checks, aborted, decoded>>

MemNext == DoLoad \/ DoWrite

MemSpec == MemInit /\ [][MemNext]_vars

(***************************************************************************)
(* The instruction specification: a Cpu with any flags, the stack pointer  *)
(* at either end of the stack page and bytes already on the stack, on      *)
(* which one instruction is executed, then the instruction that undoes it, *)
(* as the unit tests of mod.rs do with execute_instruction(); interrupt(), *)
(* push() and pop() are called directly.                                   *)
(***************************************************************************)
\* number of push() / pop() calls made in a row
MaxStackOps == 2
\* number of JSRs made one inside the other
MaxCalls == 3

\* every value of struct Status
AllStatus ==
    [carry : BOOLEAN, zero : BOOLEAN, interrupt_disable : BOOLEAN,
     decimal : BOOLEAN, overflow : BOOLEAN, negative : BOOLEAN]

\* every flag combination with every stack pointer, and every accumulator with
\* every stack pointer; the first family is about to run the code at 0x0300,
\* the second the code at 0x03FE
InstrRegisters ==
    {[a |-> 77, x |-> 3, y |-> 5, p |-> f, pc |-> 768, stack_pointer |-> s] :
        f \in AllStatus, s \in {0, 1, 253, 255}}
    \cup
    {[a |-> a, x |-> 3, y |-> 5, p |-> f, pc |-> 1022, stack_pointer |-> s] :
        a \in {0, 1, 128, 255}, s \in {0, 1, 253, 255},
        f \in {[RegistersNew.p EXCEPT !.carry = TRUE, !.overflow = TRUE],
               [RegistersNew.p EXCEPT !.zero = TRUE, !.negative = TRUE,
                                      !.interrupt_disable = FALSE]}}

\* the stack page: empty, or with bytes at both ends of the page
InstrStacks ==
    {ZeroArray,
     (0 :> 255 @@ 1 :> 48 @@ 2 :> 203 @@ 3 :> 52 @@ 4 :> 128 @@ 254 :> 207 @@ 255 :> 1)}

\* the operand of a JSR at 0x02FF (target 0x1234) and at 0x03FD (target 0xFFFF)
InstrRam == (256 :> 52 @@ 257 :> 18 @@ 510 :> 255 @@ 511 :> 255)

\* the NMI vector holds 0x0000, the reset vector 0x9000, the IRQ/BRK vector 0xA0B0
InstrCartridge == TopImage(1, 41136)

\* BRK, PHP, JSR, PLP, RTI, PHA, RTS, PLA
InstrOpcodes == {0, 8, 32, 40, 64, 72, 96, 104}

\* the record of a call, with the call made before it and the
\* execute_instruction calls made so far
InstrCall(op, returned, opcode, address, data) ==
    [prev |-> [op |-> last.op, opcode |-> last.opcode, before |-> last.before],
     history |-> IF op = "execute_instruction"
                 THEN Append(last.history, [opcode |-> opcode, before |-> registers])
                 ELSE last.history]
        @@ Call(op, returned, FALSE, opcode, address, data, registers, <<>>, last.n + 1)

InstrInit ==
    /\ overflow_checks \in BOOLEAN
    /\ registers \in InstrRegisters
    /\ cycles = 7
    /\ wait_cycles = 0
    /\ zero_page_ram = ZeroArray
    /\ stack \in InstrStacks
    /\ internal_ram = InstrRam
    /\ cartridge = InstrCartridge
    /\ aborted = FALSE
    /\ last = [prev |-> [op |-> "none", opcode |-> 0, before |-> registers],
                history |-> <<>>]
                @@ Call("new", TRUE, FALSE, 0, 0, 0, registers, <<>>, 0)
    /\ decoded = NoDecode

\* the second instruction of a run is the one that undoes the first; JSRs are
\* also made one inside the other, and then returned from one by one
Follows(opcode) ==
    \/ last.op = "new"
    \/ /\ last.op = "execute_instruction"
       /\ last.n = 1
       /\ <<last.opcode, opcode>> \in {<<0, 64>>, <<8, 40>>, <<32, 96>>, <<72, 104>>}
    \/ /\ last.op = "execute_instruction"
       /\ last.n = Len(last.history)
       /\ last.history[1].opcode = 32
       /\ LET calls == Cardinality({i \in 1..last.n : last.history[i].opcode = 32})
          IN  \/ opcode = 32 /\ last.opcode = 32 /\ calls < MaxCalls
              \/ opcode = 96 /\ last.n < 2 * calls

\* what a call leaves: the Cpu it returned, or the abort when it panicked
Returns(c, call) ==
    IF c.panicked
    THEN /\ aborted' = TRUE
         /\ last' = [call EXCEPT !.returned = FALSE]
         /\ UNCHANGED cpu_fields
    ELSE /\ SetCpu(c)
         /\ last' = call
         /\ UNCHANGED aborted

Execute ==
    /\ ~aborted
    /\ \E opcode \in InstrOpcodes :
        /\ Follows(opcode)
        /\ \E e \in {execute_instruction(Self, opcode)} :
            Returns(e.cpu, InstrCall("execute_instruction", TRUE, opcode, 0, e.data))
    /\ UNCHANGED <<overflow_checks, decoded>>

Interrupt ==
    /\ ~aborted
    /\ last.op = "new"
    /\ \E kind \in {"Break", "Reset", "IRQ", "NMI"} :
        \E c \in {interrupt(Self, kind)} :
            Returns(c, InstrCall("interrupt", TRUE, 0, 0, kind))
    /\ UNCHANGED <<overflow_checks, decoded>>

Push ==
    /\ ~aborted
    /\ last.op \in {"new", "push", "pop"}
    /\ last.n < MaxStackOps
    /\ \E data \in {90, 255} :
        \E c \in {push(Self, data)} :
            Returns(c, InstrCall("push", TRUE, 0, 0, data))
    /\ UNCHANGED <<overflow_checks, decoded>>

Pop ==
    /\ ~aborted
    /\ last.op \in {"new", "push", "pop"}
    /\ last.n < MaxStackOps
    /\ \E q \in {pop(Self)} :
        Returns(q.cpu, InstrCall("pop", TRUE, 0, 0, q.data))
    /\ UNCHANGED <<overflow_checks, decoded>>

InstrNext == Execute \/ Interrupt \/ Push \/ Pop

InstrSpec == InstrInit /\ [][InstrNext]_vars

(***************************************************************************)
(* The driver with the interrupt lines of the collaborators: every clock() *)
(* is called while a line is, or is not, held.  struct Cpu has no field    *)
(* for a request and clock() takes no argument, so the line is part of the *)
(* record of the call only.                                                *)
(***************************************************************************)
\* CLI, NOP, BRK and SEI, NOP, NOP at the IRQ/BRK vector's target, and the dummy
LineCartridges ==
    {DummyMapperNew} \cup {Image(1, e, 88, 234, 0) : e \in Entries}
                     \cup {Image(1, e, 120, 234, 234) : e \in Entries}

LineCall(request, call) == [request |-> request] @@ call

LineInit ==
    /\ overflow_checks \in BOOLEAN
    /\ \E cart \in LineCartridges :
        \E c \in {CpuNew(cart)} :
            /\ registers = c.registers
            /\ cycles = c.cycles
            /\ wait_cycles = c.wait_cycles
            /\ zero_page_ram = c.zero_page_ram
            /\ stack = c.stack
            /\ internal_ram = c.internal_ram
            /\ cartridge = c.cartridge
    /\ aborted = FALSE
    /\ last = LineCall("none", Call("new", TRUE, FALSE, 0, 0, 0, RegistersNew, <<>>, 0))
    /\ decoded = NoDecode

LineClock ==
    /\ ~aborted
    /\ cycles < MaxCycles
    /\ \E request \in {"none", "IRQ", "NMI"} :
        \E c \in {clock(Self)} :
            IF c.panicked
            THEN /\ aborted' = TRUE
                 /\ last' = LineCall(request, Call("clock", FALSE, FALSE, 0, 0, 0,
                                                   registers, <<>>, last.n + 1))
                 /\ UNCHANGED <<cpu_fields, decoded>>
            ELSE /\ SetCpu(c)
                 /\ last' = LineCall(request, Call("clock", TRUE, wait_cycles = 0,
                                                   IF wait_cycles = 0
                                                   THEN load_byte_at_pc(Self) ELSE 0,
                                                   0, c.wait_cycles, registers, <<>>,
                                                   last.n + 1))
                 /\ decoded' = IF wait_cycles = 0
                               THEN [valid |-> TRUE, at |-> cycles, cost |-> c.wait_cycles]
                               ELSE decoded
                 /\ UNCHANGED aborted
    /\ UNCHANGED overflow_checks

LineNext == LineClock

LineSpec == LineInit /\ [][LineNext]_vars

(***************************************************************************)
(* The status byte: get_byte() and set_byte() called on a Cpu with any     *)
(* flags, set_byte() with any byte.                                        *)
(***************************************************************************)
StatusInit ==
    /\ overflow_checks \in BOOLEAN
    /\ registers \in {[RegistersNew EXCEPT !.p = f] : f \in AllStatus}
    /\ cycles = 7
    /\ wait_cycles = 0
    /\ zero_page_ram = ZeroArray
    /\ stack = ZeroArray
    /\ internal_ram = ZeroArray
    /\ cartridge = DummyMapperNew
    /\ aborted = FALSE
    /\ last = Call("new", TRUE, FALSE, 0, 0, 0, registers, <<>>, 0)
    /\ decoded = NoDecode

\* `self.registers.p.get_byte()`: the byte returned is recorded
DoGetByte ==
    /\ last' = Call("get_byte", TRUE, FALSE, 0, 0, get_byte(registers.p), registers, <<>>, 0)
    /\ UNCHANGED <<cpu_fields, overflow_checks, aborted, decoded>>

\* `self.registers.p.set_byte(status)`, once, on the flags the Cpu started with
DoSetByte ==
    /\ last.op = "new"
    /\ \E status \in 0..255 :
        /\ registers' = [registers EXCEPT !.p = set_byte(status)]
        /\ last' = Call("set_byte", TRUE, FALSE, 0, 0, status, registers, <<>>, 0)
    /\ UNCHANGED <<cycles, wait_cycles, zero_page_ram, stack, internal_ram, cartridge,
                   overflow_checks, aborted, decoded>>

StatusNext == DoGetByte \/ DoSetByte

StatusSpec == StatusInit /\ [][StatusNext]_vars

(***************************************************************************)
(* One instruction executed on a prepared Cpu, as the unit tests of        *)
(* mod.rs do: the registers and the memory are set, execute_instruction()  *)
(* is called with PC at the first operand byte, and the cost it returns    *)
(* and the addressing mode it built are recorded.                          *)
(***************************************************************************)
\* the prepared Cpus, each with the opcodes executed on it
OpCases ==
    LET Prepared(r, zp, st, ram, cart, cyc, checks, opcodes) ==
            [registers |-> r, zero_page_ram |-> zp, stack |-> st, internal_ram |-> ram,
             cartridge |-> cart, cycles |-> cyc, overflow_checks |-> checks,
             opcodes |-> opcodes]
        Flags(c, rest) ==
            [carry |-> c, zero |-> rest, interrupt_disable |-> ~rest,
             decimal |-> rest, overflow |-> rest, negative |-> rest]
        \* ADC, SBC, CMP, CPX, CPY immediate: every register value against
        \* operands on both sides of every bit-7 and carry boundary
        Arithmetic ==
            {Prepared([a |-> a, x |-> 255 - a, y |-> (a + 128) % 256, p |-> Flags(c, rest),
                       pc |-> 768, stack_pointer |-> 253],
                      ZeroArray, ZeroArray, ArraySet(ZeroArray, 256, m), DummyMapperNew,
                      7, FALSE, {105, 233, 201, 224, 192}) :
                a \in 0..255, m \in {0, 1, 63, 64, 80, 127, 128, 129, 176, 192, 254, 255},
                c \in BOOLEAN, rest \in BOOLEAN}
        \* the eight branches, with every flag combination, an operand of either
        \* sign, in RAM at 0x0001, 0x0300 and 0x03FE
        Branches ==
            {Prepared([a |-> 77, x |-> 3, y |-> 5, p |-> f, pc |-> at, stack_pointer |-> 253],
                      ArraySet(ZeroArray, 1, d), ZeroArray,
                      ArraySet(ArraySet(ZeroArray, 256, d), 510, d), DummyMapperNew,
                      7, FALSE, {16, 48, 80, 112, 144, 176, 208, 240}) :
                f \in AllStatus, at \in {1, 768, 1022}, d \in {0, 1, 127, 128, 254, 255}}
        \* the same with the operand 0x7F in ROM at 0xFFFE
        TopBranches ==
            {Prepared([a |-> 77, x |-> 3, y |-> 5, p |-> f, pc |-> 65534, stack_pointer |-> 253],
                      ZeroArray, ZeroArray, ZeroArray, TopImage(1, 127),
                      7, checks, {16, 48, 80, 112, 144, 176, 208, 240}) :
                f \in AllStatus, checks \in BOOLEAN}
        \* every opcode, with the operand bytes b1, b2 at 0x0300 and pointers in
        \* zero page and at 0x0200, 0x02FF
        Operands ==
            {Prepared([a |-> 77, x |-> x, y |-> y, p |-> RegistersNew.p, pc |-> 768,
                       stack_pointer |-> 253],
                      (0 :> 18 @@ 1 :> 3 @@ 20 :> 254 @@ 21 :> 2 @@ 254 :> 240 @@ 255 :> 52),
                      (0 :> 119),
                      (0 :> 18 @@ 255 :> 52 @@ 256 :> b1 @@ 257 :> b2),
                      DummyMapperNew, cyc, checks, 0..255) :
                x \in {0, 1, 255}, y \in {0, 1, 255}, b1 \in {20, 254, 255},
                b2 \in {2, 64, 255}, cyc \in {7, 8}, checks \in BOOLEAN}
    IN  Arithmetic \cup Branches \cup TopBranches \cup Operands

OpInit ==
    \E case \in OpCases :
        /\ overflow_checks = case.overflow_checks
        /\ registers = case.registers
        /\ cycles = case.cycles
        /\ wait_cycles = 0
        /\ zero_page_ram = case.zero_page_ram
        /\ stack = case.stack
        /\ internal_ram = case.internal_ram
        /\ cartridge = case.cartridge
        /\ aborted = FALSE
        /\ last = [opcodes |-> case.opcodes, mode |-> Implicit]
                    @@ Call("new", TRUE, FALSE, 0, 0, 0, case.registers, <<>>, 0)
        /\ decoded = NoDecode

\* `let wait_cycles = cpu.execute_instruction(opcode);`
OpExecute ==
    /\ ~aborted
    /\ last.op = "new"
    /\ \E opcode \in last.opcodes :
        \E e \in {execute_instruction(Self, opcode)} :
            Returns(e.cpu, [opcodes |-> {}, mode |-> get_addressing_mode(Self, opcode).mode]
                            @@ Call("execute_instruction", TRUE, FALSE, opcode, 0, e.data,
                                    registers, <<>>, 1))
    /\ UNCHANGED <<overflow_checks, decoded>>

OpNext == OpExecute

OpSpec == OpInit /\ [][OpNext]_vars

(***************************************************************************)
(* cartridge.rs: load_cartridge, as main() calls it.  The file read by     *)
(* fs::read is a record of its length and of its non-zero bytes.           *)
(***************************************************************************)
\* main's `cartridge` before load_cartridge has returned
NoMapper == [kind |-> "none", rom |-> ZeroArray, ram |-> ZeroArray, rom_size |-> 0]

\* NROM::new(rom_content): the slice copies panic when the PRG size exceeds the
\* rom array or the file
NROMFromFile(rom_content) ==
    LET rom_size == ArrayGet(rom_content.bytes, 4) * 16384
        rom_start == IF BitAnd(ArrayGet(rom_content.bytes, 6), 4) \div 4 = 1 THEN 528 ELSE 16
        copied == {k \in DOMAIN rom_content.bytes : k >= rom_start /\ k < rom_start + rom_size}
    IN  IF rom_size > 32768 \/ rom_start + rom_size > rom_content.len
        THEN [panicked |-> TRUE, mapper |-> NoMapper]
        ELSE [panicked |-> FALSE,
              mapper |-> NROMNew(ArrayGet(rom_content.bytes, 4),
                                 [i \in {k - rom_start : k \in copied} |->
                                    rom_content.bytes[i + rom_start]])]

\* `match (rom_content[6] & 0xF0 >> 4) | (rom_content[7] & 0xF0)`: in Rust `>>`
\* binds tighter than `&`, so the first mask is 0xF0 >> 4
load_cartridge(rom_content) ==
    LET Byte(i) == ArrayGet(rom_content.bytes, i)
    IN  IF rom_content.len < 8
           \/ ~(Byte(0) = 78 /\ Byte(1) = 69 /\ Byte(2) = 83 /\ Byte(3) = 26)
        THEN [panicked |-> TRUE, mapper |-> NoMapper]
        ELSE IF BitOr(BitAnd(Byte(6), 240 \div 16), BitAnd(Byte(7), 240)) = 0
        THEN NROMFromFile(rom_content)
        ELSE [panicked |-> FALSE, mapper |-> DummyMapperNew]

\* the files: a header with the PRG bank count and the flag bytes 6 and 7, a
\* trainer when bit 2 of byte 6 says so, then the PRG banks (0xA9 as the first
\* byte after the header, 0x4C as the first byte after a trainer); also a file
\* that does not start with "NES\x1A", and a file of three bytes
CartInit ==
    /\ overflow_checks \in BOOLEAN
    /\ registers = RegistersNew
    /\ cycles = 7
    /\ wait_cycles = 0
    /\ zero_page_ram = ZeroArray
    /\ stack = ZeroArray
    /\ internal_ram = ZeroArray
    /\ cartridge = NoMapper
    /\ aborted = FALSE
    /\ \E b0 \in {78, 0}, b4 \in {1, 2, 3}, b6 \in {0, 1, 4, 8, 15, 16, 20, 240, 255},
          b7 \in {0, 8, 15, 16, 240}, whole \in BOOLEAN :
        LET header == (0 :> 78 @@ 1 :> 69 @@ 2 :> 83 @@ 3 :> 26 @@ 16 :> 169 @@ 528 :> 76)
            bytes == ArraySet(ArraySet(ArraySet(ArraySet(header, 0, b0), 4, b4), 6, b6), 7, b7)
            len == IF whole
                   THEN 16 + (IF (b6 \div 4) % 2 = 1 THEN 512 ELSE 0) + b4 * 16384
                   ELSE 3
        IN  /\ (b0 = 0 \/ ~whole) => (b4 = 1 /\ b6 = 0 /\ b7 = 0)
            /\ last = [rom_content |-> [len |-> len, bytes |-> bytes]]
                        @@ Call("main", TRUE, FALSE, 0, 0, 0, registers, <<>>, 0)
    /\ decoded = NoDecode

\* `let cartridge = load_cartridge("rom_tests/nestest/nestest.nes");`
LoadCartridge ==
    /\ ~aborted
    /\ last.op = "main"
    /\ \E r \in {load_cartridge(last.rom_content)} :
        IF r.panicked
        THEN /\ aborted' = TRUE
             /\ last' = [rom_content |-> last.rom_content]
                          @@ Call("load_cartridge", FALSE, FALSE, 0, 0, 0, registers, <<>>, 1)
             /\ UNCHANGED cartridge
        ELSE /\ cartridge' = r.mapper
             /\ last' = [rom_content |-> last.rom_content]
                          @@ Call("load_cartridge", TRUE, FALSE, 0, 0, 0, registers, <<>>, 1)
             /\ UNCHANGED aborted
    /\ UNCHANGED <<registers, cycles, wait_cycles, zero_page_ram, stack, internal_ram,
                   overflow_checks, decoded>>

CartNext == LoadCartridge

CartSpec == CartInit /\ [][CartNext]_vars

(***************************************************************************)
(* Properties.                                                             *)
(***************************************************************************)
ClockCalled == last'.op = "clock" /\ last'.n = last.n + 1

\* C1: the clock() calls from the call that decodes an instruction up to, but
\* not including, the call that decodes the next one number exactly the cycle
\* cost of the instruction: `cycles` at two successive decodes differs by it.
C1_DecodeSpacing ==
    (decoded.valid /\ wait_cycles = 0 /\ ~aborted) => cycles - decoded.at = decoded.cost

\* C2: `cycles` starts at 7, every clock() call that returns adds exactly 1 to
\* it, on decode ticks and on wait ticks alike, and nothing else changes it.
C2_EveryClockAddsOne ==
    /\ cycles = 7
    /\ [][IF ClockCalled /\ last'.returned
          THEN cycles' = cycles + 1
          ELSE cycles' = cycles]_vars

C2_Witness ==
    last.op = "clock" /\ last.returned /\ last.decode /\ decoded.at > 7 /\ cycles = decoded.at + 1

\* C3: a clock() call made while wait_cycles > 0 returns, takes 1 off
\* wait_cycles, adds 1 to cycles and changes nothing else of the Cpu.
C3_WaitTickFrame ==
    [][(wait_cycles > 0 /\ ClockCalled)
        => /\ last'.returned
           /\ ~last'.decode
           /\ wait_cycles' = wait_cycles - 1
           /\ cycles' = cycles + 1
           /\ registers' = registers
           /\ zero_page_ram' = zero_page_ram
           /\ stack' = stack
           /\ internal_ram' = internal_ram
           /\ cartridge' = cartridge]_vars

C3_Witness ==
    /\ last.op = "clock" /\ last.returned /\ ~last.decode
    /\ decoded.valid /\ cycles = decoded.at + 1 + decoded.cost
    /\ stack # ZeroArray

\* C4: clock() never fails: every call returns, whatever the opcode, the
\* operands and the registers, PC at 0xFFFE and 0xFFFF included.
C4_ClockNeverFails == last.op = "clock" => last.returned

\* C5: the Cpu never gets stuck: a call made while wait_cycles > 0 takes 1 off
\* wait_cycles, and the call made once it is 0 fetches and decodes the next
\* opcode.
C5_AlwaysAdvances ==
    [][ClockCalled
        => IF wait_cycles > 0
           THEN last'.returned /\ wait_cycles' = wait_cycles - 1
           ELSE last'.returned /\ last'.decode /\ decoded'.valid /\ decoded'.at = cycles]_vars

\* the addresses of the RAM range that the properties look at: the first and
\* last byte of the zero page, of the stack page and of the internal RAM, in
\* each of the four mirrors
RamProbe == {base + k * 2048 : base \in {0, 255, 256, 511, 512, 2047}, k \in 0..3}

MemCalled == last'.op \in {"load", "write"} /\ last'.n = last.n + 1

\* C6: every address a of 0x0000-0x1FFF loads what a mod 0x0800 loads, and
\* after write(a, v) every address of that range congruent to a modulo 0x0800
\* loads v.
C6_RamMirrored ==
    /\ \A a \in RamProbe : load(Self, a) = load(Self, a % 2048)
    /\ (last.op = "write" /\ last.address < 8192)
        => \A b \in RamProbe : (b % 2048 = last.address % 2048) => load(Self, b) = last.data

C6_Witness ==
    /\ last.op = "write" /\ last.address = 6400 /\ last.data = 90
    /\ load(Self, 256) = 90 /\ load(Self, 2047) = 255

\* C7: every load and every write of an address in 0x4020-0xFFFF is passed to
\* the cartridge with that address: load returns cartridge.read(address) and
\* write calls cartridge.write(address, data).
C7_CartridgeForwarded ==
    (last.op \in {"load", "write"} /\ last.address >= 16416)
        => /\ Len(last.cart) = 1
           /\ last.cart[1].address = last.address
           /\ last.op = "load" => (last.cart[1].op = "read"
                                   /\ last.data = MapperRead(cartridge, last.address))
           /\ last.op = "write" => (last.cart[1].op = "write"
                                    /\ last.cart[1].data = last.data)

\* C8: in the PPU register window 0x2000-0x3FFF load returns 0, write changes
\* nothing of the Cpu, and neither calls the cartridge.
C8_PpuWindowStub ==
    [][(MemCalled /\ last'.address >= 8192 /\ last'.address <= 16383)
        => /\ last'.cart = <<>>
           /\ last'.op = "load" => last'.data = 0
           /\ UNCHANGED cpu_fields]_vars

C8_Witness ==
    /\ last.op = "write" /\ last.address = 16383 /\ last.data = 255
    /\ load(Self, 16383) = 0

\* C9: Cpu::new sets PC to the little-endian word at the reset vector
\* 0xFFFC/0xFFFD, whatever the cartridge holds.
C9_NewReadsResetVector ==
    last.op = "new" => registers.pc = LoadWord(Self, 65532)

\* C10: BRK pushes PC + 1, PC being the program counter after the opcode fetch,
\* high byte first, then the status byte, leaves S three lower, and loads PC
\* from the word at 0xFFFE/0xFFFF.
C10_BrkFrame ==
    (last.op = "clock" /\ last.returned /\ last.decode /\ last.opcode = 0)
        => LET s == last.before.stack_pointer
               return == WrappingAdd16(WrappingAdd16(last.before.pc, 1), 1)
           IN  /\ load(Self, BitOr(256, s)) = Shr8(return)
               /\ load(Self, BitOr(256, WrappingSub8(s, 1))) = AsU8(return)
               /\ load(Self, BitOr(256, WrappingSub8(s, 2))) = BitOr(get_byte(last.before.p), 48)
               /\ registers.stack_pointer = WrappingSub8(s, 3)
               /\ registers.pc = LoadWord(Self, 65534)

(***************************************************************************)
(* Interrupt entry, the stack instructions and the status byte, under      *)
(* InstrSpec.                                                              *)
(***************************************************************************)
\* the last call entered an interrupt of one of `kinds`, by interrupt() or by BRK
InterruptEntered(kinds) ==
    /\ last.returned
    /\ \/ last.op = "interrupt" /\ last.data \in kinds
       \/ last.op = "execute_instruction" /\ last.opcode = 0 /\ "Break" \in kinds

\* the last call executed the instruction `opcode`
Executed(opcode) ==
    last.op = "execute_instruction" /\ last.returned /\ last.opcode = opcode

\* the byte at an offset below the stack pointer a call started with
Pushed(before, offset) == load(Self, BitOr(256, WrappingSub8(before.stack_pointer, offset)))

\* C11: interrupt entry (BRK, IRQ or NMI) sets I and leaves C, Z, D, V, N and
\* the registers A, X, Y as they were before the entry.
C11_InterruptEntryFrame ==
    InterruptEntered({"Break", "IRQ", "NMI"}) =>
        /\ registers.p = [last.before.p EXCEPT !.interrupt_disable = TRUE]
        /\ registers.a = last.before.a
        /\ registers.x = last.before.x
        /\ registers.y = last.before.y

\* C12: the status byte pushed by PHP and by BRK has bits 5 and 4 set, the one
\* pushed by IRQ and NMI entry has bit 5 set and bit 4 clear, and bits
\* 7, 6, 3, 2, 1, 0 are N, V, D, I, Z, C as they were before the push.
C12_PushedStatusByte ==
    LET Live(p) == 128 * BoolAsU8(p.negative) + 64 * BoolAsU8(p.overflow)
                    + 8 * BoolAsU8(p.decimal) + 4 * BoolAsU8(p.interrupt_disable)
                    + 2 * BoolAsU8(p.zero) + BoolAsU8(p.carry)
    IN  /\ Executed(8) => Pushed(last.before, 0) = Live(last.before.p) + 48
        /\ InterruptEntered({"Break"}) => Pushed(last.before, 2) = Live(last.before.p) + 48
        /\ InterruptEntered({"IRQ", "NMI"}) => Pushed(last.before, 2) = Live(last.before.p) + 32

\* an IRQ entry with C and N set and I clear has pushed 0xA1
C12_Witness ==
    /\ InterruptEntered({"IRQ"})
    /\ last.before.p = [carry |-> TRUE, zero |-> FALSE, interrupt_disable |-> FALSE,
                        decimal |-> FALSE, overflow |-> FALSE, negative |-> TRUE]
    /\ Pushed(last.before, 2) = 161

\* C13: reset entry pushes nothing (S and the stack page unchanged), sets I and
\* loads PC from the word at 0xFFFC/0xFFFD.
C13_ResetPushesNothing ==
    [][(last'.op = "interrupt" /\ last'.returned /\ last'.data = "Reset") =>
            /\ stack' = stack
            /\ registers'.stack_pointer = registers.stack_pointer
            /\ registers'.p.interrupt_disable
            /\ registers'.pc = ResetWord]_vars

(***************************************************************************)
(* Interrupt requests, under LineSpec.                                     *)
(***************************************************************************)
\* C14: an IRQ request is never serviced while I is 1, an NMI request is
\* serviced regardless of I, and either is taken only by a clock() call made
\* with wait_cycles = 0.  Servicing pushes PC and the status byte with bit 5
\* set and bit 4 clear, and loads PC from the vector.
C14_InterruptRequests ==
    [][LET Serviced(vector) ==
               /\ registers'.stack_pointer = WrappingSub8(registers.stack_pointer, 3)
               /\ registers'.pc = LoadWord(Self, vector)
               /\ BitAnd(ArrayGet(stack', WrappingSub8(registers.stack_pointer, 2)), 48) = 32
       IN  (last'.op = "clock" /\ last'.returned) =>
               /\ (last'.request = "IRQ" /\ registers.p.interrupt_disable) => ~Serviced(65534)
               /\ (last'.request = "NMI" /\ wait_cycles = 0) => Serviced(65530)
               /\ wait_cycles # 0 => ~Serviced(65534) /\ ~Serviced(65530)]_vars

(***************************************************************************)
(* Subroutines, RTI and the pulls, under InstrSpec.                        *)
(***************************************************************************)
\* the last call executed `second` and the call before it executed `first`
ExecutedPair(first, second) ==
    /\ Executed(second)
    /\ last.prev.op = "execute_instruction"
    /\ last.prev.opcode = first

\* C15: a JSR whose last operand byte is at r stores high(r) at 0x0100|S and
\* low(r) at 0x0100|(S-1 mod 256); the RTS that follows it leaves PC = r + 1 and
\* S as it was before the JSR.  execute_instruction is entered with PC at the
\* first operand byte, so r is that PC plus 1 (modulo 65536, for the JSR
\* whose operand bytes are at 0xFFFF and 0x0000).
C15_JsrRts ==
    /\ Executed(32) =>
        /\ Pushed(last.before, 0) = ((last.before.pc + 1) % 65536) \div 256
        /\ Pushed(last.before, 1) = (last.before.pc + 1) % 256
    /\ ExecutedPair(32, 96) =>
        /\ registers.pc = (last.prev.before.pc + 2) % 65536
        /\ registers.stack_pointer = last.prev.before.stack_pointer

\* a JSR at 0x03FD made with S = 0x00 has been returned from: PC = 0x0400
C15_Witness ==
    /\ ExecutedPair(32, 96)
    /\ last.prev.before.pc = 1022
    /\ last.prev.before.stack_pointer = 0
    /\ last.before.pc = 65535
    /\ registers.pc = 1024

\* C16: RTI sets the six flags from the popped status byte, bits 5 and 4
\* ignored, sets PC to the popped word, low byte first and nothing added, and
\* leaves S increased by 3 modulo 256.
C16_Rti ==
    LET Byte(offset) == ArrayGet(stack, (last.before.stack_pointer + offset) % 256)
        Bit(b, weight) == (b \div weight) % 2 = 1
    IN  Executed(64) =>
            /\ registers.p = [carry |-> Bit(Byte(1), 1), zero |-> Bit(Byte(1), 2),
                              interrupt_disable |-> Bit(Byte(1), 4),
                              decimal |-> Bit(Byte(1), 8), overflow |-> Bit(Byte(1), 64),
                              negative |-> Bit(Byte(1), 128)]
            /\ registers.pc = Byte(2) + 256 * Byte(3)
            /\ registers.stack_pointer = (last.before.stack_pointer + 3) % 256

\* an RTI made with S = 0xFF has popped 0xFF, 0x30 and 0xCB from 0x0100-0x0102
C16_Witness ==
    /\ Executed(64)
    /\ last.before.stack_pointer = 255
    /\ registers.stack_pointer = 2
    /\ registers.pc = 52016
    /\ registers.p = [carry |-> TRUE, zero |-> TRUE, interrupt_disable |-> TRUE,
                      decimal |-> TRUE, overflow |-> TRUE, negative |-> TRUE]
    /\ ~last.before.p.carry

\* C17: PHP followed by PLP leaves the six flags and S as they were before the
\* PHP.
C17_PhpPlp ==
    ExecutedPair(8, 40) =>
        /\ registers.p = last.prev.before.p
        /\ registers.stack_pointer = last.prev.before.stack_pointer

\* a PHP made with S = 0x00 and with V, D set and Z clear has been undone; the
\* byte it left at 0x0100 has bits 6, 5, 4, 3 set
C17_Witness ==
    /\ ExecutedPair(8, 40)
    /\ last.prev.before.stack_pointer = 0
    /\ registers.p.overflow
    /\ registers.p.decimal
    /\ ~registers.p.zero
    /\ (ArrayGet(stack, 0) % 128) \div 8 = 15

\* C18: PHA followed by PLA leaves A and S unchanged, sets Z = (A = 0) and
\* N = bit 7 of A, and changes no other flag.
C18_PhaPla ==
    ExecutedPair(72, 104) =>
        /\ registers.a = last.prev.before.a
        /\ registers.stack_pointer = last.prev.before.stack_pointer
        /\ registers.p = [last.prev.before.p EXCEPT
                            !.zero = (last.prev.before.a = 0),
                            !.negative = (last.prev.before.a >= 128)]

\* a PHA of 0 made with Z clear and S = 0x00 has been undone: Z is set
C18_Witness ==
    /\ ExecutedPair(72, 104)
    /\ registers.a = 0
    /\ registers.p.zero
    /\ ~last.prev.before.p.zero
    /\ last.prev.before.stack_pointer = 0

(***************************************************************************)
(* The stack pointer, under InstrSpec.                                     *)
(***************************************************************************)
\* C20: the stack pointer is free-running modulo 256.  A push writes its byte
\* at 0x0100 + S, in the stack page and nowhere else, and leaves S - 1 mod 256
\* (0x0100 and 0xFF when S = 0x00); a pop reads 0x0100 + (S + 1 mod 256), writes
\* nothing and leaves S + 1 mod 256 (0x0100 and 0x00 when S = 0xFF); no push and
\* no pop signals an error.
C20_StackPointerWraps ==
    [][/\ last'.op \in {"push", "pop"} /\ last'.n # last.n => last'.returned /\ ~aborted'
       /\ last'.op = "push" /\ last'.n # last.n =>
            /\ \A s \in {registers.stack_pointer} : load(Self, 256 + s)' = last'.data
            /\ stack' = ArraySet(stack, registers.stack_pointer, last'.data)
            /\ registers' = [registers EXCEPT !.stack_pointer = (@ + 255) % 256]
            /\ UNCHANGED <<zero_page_ram, internal_ram, cartridge>>
       /\ last'.op = "pop" /\ last'.n # last.n =>
            /\ last'.data = load(Self, 256 + ((registers.stack_pointer + 1) % 256))
            /\ registers' = [registers EXCEPT !.stack_pointer = (@ + 1) % 256]
            /\ UNCHANGED <<zero_page_ram, stack, internal_ram, cartridge>>]_vars

\* a push made with S = 0x00 has left S = 0xFF and a pop has then read the byte
\* back from 0x0100 and left S = 0x00
C20_Witness ==
    /\ last.op = "pop"
    /\ last.prev.op = "push"
    /\ last.prev.before.stack_pointer = 0
    /\ last.before.stack_pointer = 255
    /\ registers.stack_pointer = 0
    /\ last.data = 90
    /\ load(Self, 256) = 90

(***************************************************************************)
(* The status byte, under StatusSpec.                                      *)
(***************************************************************************)
\* C19: for every flag combination P, set_byte(get_byte(P)) is P again, and
\* get_byte() after set_byte(b) returns b with bits 5 and 4 cleared: the live
\* status never holds the B or the unused bit.
C19_StatusByteRoundTrip ==
    /\ set_byte(get_byte(registers.p)) = registers.p
    /\ last.op = "get_byte" => set_byte(last.data) = registers.p
    /\ last.op = "set_byte" =>
        get_byte(registers.p) = last.data - 16 * ((last.data \div 16) % 4)

\* set_byte(0xFF) has been called on a Cpu with no flag set: get_byte() is 0xCF
C19_Witness ==
    /\ last.op = "set_byte"
    /\ last.data = 255
    /\ get_byte(last.before.p) = 0
    /\ get_byte(registers.p) = 207

(***************************************************************************)
(* Arithmetic and comparisons, under OpSpec.  The operand M of the         *)
(* immediate forms is the byte at the PC execute_instruction starts with.  *)
(***************************************************************************)
\* C21: ADC leaves A = (A + M + C) mod 256, C = (A + M + C > 0xFF), Z and N from
\* the result, V = ((~(A ^ M) & (A ^ result) & 0x80) # 0) on the operands
\* before the instruction, and I and D unchanged.
C21_Adc ==
    LET A == last.before.a
        M == load(Self, last.before.pc)
        sum == A + M + BoolAsU8(last.before.p.carry)
        result == sum % 256
    IN  Executed(105) =>
            /\ registers.a = result
            /\ registers.p.carry = (sum > 255)
            /\ registers.p.zero = (result = 0)
            /\ registers.p.negative = (result >= 128)
            /\ registers.p.overflow =
                (BitAnd(BitAnd(255 - BitXor(A, M), BitXor(A, result)), 128) # 0)
            /\ registers.p.interrupt_disable = last.before.p.interrupt_disable
            /\ registers.p.decimal = last.before.p.decimal

\* 0x50 + 0x50 + 1 has been added: A = 0xA1, V and N set, C clear
C21_Witness ==
    /\ Executed(105)
    /\ last.before.a = 80
    /\ last.before.p.carry
    /\ ~last.before.p.overflow
    /\ registers.a = 161
    /\ registers.p.overflow
    /\ registers.p.negative
    /\ ~registers.p.carry

\* C22: SBC leaves A = (A - M - (1 - C)) mod 256, C = 1 exactly when
\* A >= M + (1 - C), Z and N from the result, and
\* V = (((A ^ M) & (A ^ result) & 0x80) # 0) on the operands before the
\* instruction.
C22_Sbc ==
    LET A == last.before.a
        M == load(Self, last.before.pc)
        borrow == 1 - BoolAsU8(last.before.p.carry)
        result == (A - M - borrow + 512) % 256
    IN  Executed(233) =>
            /\ registers.a = result
            /\ registers.p.carry = (A >= M + borrow)
            /\ registers.p.zero = (result = 0)
            /\ registers.p.negative = (result >= 128)
            /\ registers.p.overflow = (BitAnd(BitAnd(BitXor(A, M), BitXor(A, result)), 128) # 0)

\* C23: CMP, CPX and CPY set C = (r >= M), Z = (r = M), N = bit 7 of
\* (r - M) mod 256 and change nothing else: A, X, Y, S, V, D, I and the memory
\* are as before (PC has moved past the operand).
C23_Compare ==
    [][\A pair \in {<<201, registers.a>>, <<224, registers.x>>, <<192, registers.y>>} :
        (last'.op = "execute_instruction" /\ last'.returned /\ last'.opcode = pair[1]) =>
            /\ \E M \in {load(Self, registers.pc)} :
                registers' = [registers EXCEPT
                                !.pc = @ + 1,
                                !.p.carry = (pair[2] >= M),
                                !.p.zero = (pair[2] = M),
                                !.p.negative = ((pair[2] - M + 256) % 256 >= 128)]
            /\ UNCHANGED <<zero_page_ram, stack, internal_ram, cartridge>>]_vars

\* X = 0x01 has been compared with 0x80: C is cleared, Z is clear and N is set
C23_Witness ==
    /\ Executed(224)
    /\ last.before.x = 1
    /\ load(Self, last.before.pc) = 128
    /\ last.before.p.carry
    /\ ~last.before.p.negative
    /\ ~registers.p.carry
    /\ registers.p.negative
    /\ ~registers.p.zero

(***************************************************************************)
(* Branches, under OpSpec.                                                 *)
(***************************************************************************)
\* C24: for each of the eight branches, with p the PC after the operand fetch
\* and d the operand as a signed byte: PC = p and the cost is 2 when the
\* predicate is false; PC = (p + d) mod 2^16 and the cost is 3 when PC and p have
\* the same high byte, 4 otherwise, when it is true; nothing but PC changes.
C24_Branches ==
    LET f == last.before.p
        Taken(opcode) ==
            CASE opcode = 16 -> ~f.negative
              [] opcode = 48 -> f.negative
              [] opcode = 80 -> ~f.overflow
              [] opcode = 112 -> f.overflow
              [] opcode = 144 -> ~f.carry
              [] opcode = 176 -> f.carry
              [] opcode = 208 -> ~f.zero
              [] opcode = 240 -> f.zero
        operand == load(Self, last.before.pc)
        d == IF operand >= 128 THEN operand - 256 ELSE operand
        p == last.before.pc + 1
        target == (p + d + 65536) % 65536
    IN  \A opcode \in {16, 48, 80, 112, 144, 176, 208, 240} :
            Executed(opcode) =>
                IF Taken(opcode)
                THEN /\ registers = [last.before EXCEPT !.pc = target]
                     /\ last.data = IF target \div 256 = p \div 256 THEN 3 ELSE 4
                ELSE /\ registers = [last.before EXCEPT !.pc = p]
                     /\ last.data = 2

\* a BCC at 0xFFFD with operand 0x7F has been taken: PC = 0x007E, cost 4
C24_Witness ==
    /\ Executed(144)
    /\ last.before.pc = 65534
    /\ ~last.before.p.carry
    /\ registers.pc = 126
    /\ last.data = 4

(***************************************************************************)
(* Costs and effective addresses, under OpSpec.  The operand bytes are     *)
(* read in the memory of before the call at the PC the call starts with.   *)
(***************************************************************************)
\* C25: an Absolute,X / Absolute,Y / (Indirect),Y read costs its base cost (4,
\* 4, 5) plus 1 exactly when (base & 0xFF00) # ((base + index) & 0xFF00); the
\* stores cost the same whether or not the page is crossed (STA abs,X and
\* STA abs,Y 5, STA (ind),Y 6) and a read-modify-write abs,X costs 7.
C25_PageCrossCost ==
    [][\A opcode \in 0..255 :
        (last'.op = "execute_instruction" /\ last'.returned /\ last'.opcode = opcode) =>
            LET b1 == load(Self, registers.pc)
                absolute == b1 + 256 * load(Self, registers.pc + 1)
                pointer == load(Self, b1) + 256 * load(Self, (b1 + 1) % 256)
                Crossed(base, index) == base \div 256 # ((base + index) % 65536) \div 256
                Extra(base, index) == IF Crossed(base, index) THEN 1 ELSE 0
            IN  /\ opcode \in {29, 61, 93, 125, 189, 221, 253, 188} =>
                    last'.data = 4 + Extra(absolute, registers.x)
                /\ opcode \in {25, 57, 89, 121, 185, 217, 249, 190} =>
                    last'.data = 4 + Extra(absolute, registers.y)
                /\ opcode \in {17, 49, 81, 113, 177, 209, 241} =>
                    last'.data = 5 + Extra(pointer, registers.y)
                /\ opcode \in {157, 153} => last'.data = 5
                /\ opcode = 145 => last'.data = 6
                /\ opcode \in {30, 62, 94, 126, 222, 254} => last'.data = 7]_vars

\* LDA $02FF,X with X = 1 has read 0x0300, across a page, and has cost 5
C25_Witness ==
    /\ Executed(189)
    /\ last.before.x = 1
    /\ load(Self, 768) = 255
    /\ load(Self, 769) = 2
    /\ last.mode.address = 768
    /\ registers.a = 255
    /\ last.data = 5

\* C26: an instruction that writes to 0x4014 costs its base cycles plus 513
\* when `cycles` is even and plus 514 when it is odd; checked on STA, STX and
\* STY absolute (base 4) with the operand 0x4014.
C26_OamDmaCost ==
    [][(/\ last'.op = "execute_instruction"
        /\ last'.returned
        /\ last'.opcode \in {141, 142, 140}
        /\ load(Self, registers.pc) = 20
        /\ load(Self, registers.pc + 1) = 64) =>
            last'.data = 4 + (IF cycles % 2 = 0 THEN 513 ELSE 514)]_vars

\* C27: JMP (indirect) with pointer p reads the low byte of its target at p
\* and the high byte at the address with the high byte of p and the low byte
\* (p + 1) mod 256: for p = 0xXXFF the high byte comes from 0xXX00.
C27_IndirectJumpWrap ==
    LET p == load(Self, last.before.pc) + 256 * load(Self, last.before.pc + 1)
    IN  Executed(108) =>
            registers.pc = load(Self, p) + 256 * load(Self, 256 * (p \div 256) + ((p + 1) % 256))

\* C28: (Indirect,X) and (Indirect),Y read both pointer bytes in zero page:
\* with zp = (b1 + X) mod 256, or zp = b1, the low byte is read at zp and the
\* high byte at (zp + 1) mod 256, zp = 0xFF included; the effective address is
\* that word, plus Y for (Indirect),Y.
C28_ZeroPagePointers ==
    [][\A opcode \in 0..255 :
        (last'.op = "execute_instruction" /\ last'.returned /\ last'.opcode = opcode) =>
            LET b1 == load(Self, registers.pc)
                Pointer(zp) == load(Self, zp) + 256 * load(Self, (zp + 1) % 256)
            IN  /\ opcode \in {1, 33, 65, 97, 129, 161, 193, 225} =>
                    last'.mode.address = Pointer((b1 + registers.x) % 256)
                /\ opcode \in {17, 49, 81, 113, 145, 177, 209, 241} =>
                    last'.mode.address = (Pointer(b1) + registers.y) % 65536]_vars

\* LDA ($FF,X) with X = 0 has taken its pointer at 0x00FF and 0x0000: 0x1234
C28_Witness ==
    /\ Executed(161)
    /\ last.before.x = 0
    /\ load(Self, last.before.pc) = 255
    /\ load(Self, 256) = 119
    /\ last.mode.address = 4660

\* C29: for ZeroPage,X and ZeroPage,Y the effective address is
\* (b1 + index) mod 256, page_crossed is false, and the cost is the one of the
\* opcode (4 for a read or a store, 6 for a read-modify-write) whether or not
\* b1 + index exceeds 0xFF.
C29_ZeroPageIndexed ==
    [][\A opcode \in 0..255 :
        (last'.op = "execute_instruction" /\ last'.returned /\ last'.opcode = opcode) =>
            LET b1 == load(Self, registers.pc)
                Indexed(index) ==
                    /\ last'.mode.address = (b1 + index) % 256
                    /\ ~last'.mode.page_boundary_crossed
                    /\ last'.data = IF opcode \in {22, 54, 86, 118, 214, 246} THEN 6 ELSE 4
            IN  /\ opcode \in {21, 53, 85, 117, 149, 181, 213, 245,
                               22, 54, 86, 118, 214, 246, 148, 180} => Indexed(registers.x)
                /\ opcode \in {150, 182} => Indexed(registers.y)]_vars

\* LDA $FF,X with X = 1 has read 0x0000 and has cost 4
C29_Witness ==
    /\ Executed(181)
    /\ last.before.x = 1
    /\ load(Self, last.before.pc) = 255
    /\ last.mode.address = 0
    /\ registers.a = 18
    /\ last.data = 4

\* C30: a documented instruction that is not a jump, a call, a return, BRK or
\* a taken branch, with its opcode at a, leaves PC = a + 1 + n, n being the
\* operand size of its addressing mode; a 2-byte operand is assembled low byte
\* first.  execute_instruction starts with PC = a + 1.
C30_OperandSize ==
    [][\A opcode \in 0..255 :
        (last'.op = "execute_instruction" /\ last'.returned /\ last'.opcode = opcode) =>
            LET word == load(Self, registers.pc) + 256 * load(Self, registers.pc + 1)
                f == registers.p
                NotTaken ==
                    CASE opcode = 16 -> f.negative
                      [] opcode = 48 -> ~f.negative
                      [] opcode = 80 -> f.overflow
                      [] opcode = 112 -> ~f.overflow
                      [] opcode = 144 -> f.carry
                      [] opcode = 176 -> ~f.carry
                      [] opcode = 208 -> f.zero
                      [] opcode = 240 -> ~f.zero
                      [] OTHER -> FALSE
                Absolute == {13, 45, 77, 109, 141, 173, 205, 237,
                             14, 46, 78, 110, 142, 174, 206, 238, 44, 140, 172, 204, 236}
                AbsoluteX == {29, 61, 93, 125, 157, 189, 221, 253, 30, 62, 94, 126, 222, 254, 188}
                AbsoluteY == {25, 57, 89, 121, 153, 185, 217, 249, 190}
            IN  \* implicit and accumulator
                /\ opcode \in {8, 40, 72, 104, 136, 168, 200, 232, 24, 56, 88, 120, 152, 184,
                               216, 248, 138, 154, 170, 186, 202, 234, 10, 42, 74, 106} =>
                    registers'.pc = registers.pc
                \* immediate, zero page, zero page indexed, (indirect,X), (indirect),Y
                /\ opcode \in {9, 41, 73, 105, 169, 201, 233, 160, 162, 192, 224,
                               5, 37, 69, 101, 133, 165, 197, 229,
                               6, 38, 70, 102, 134, 166, 198, 230, 36, 132, 164, 196, 228,
                               21, 53, 85, 117, 149, 181, 213, 245,
                               22, 54, 86, 118, 214, 246, 148, 180, 150, 182,
                               1, 33, 65, 97, 129, 161, 193, 225,
                               17, 49, 81, 113, 145, 177, 209, 241} =>
                    registers'.pc = registers.pc + 1
                \* relative
                /\ NotTaken => registers'.pc = registers.pc + 1
                \* absolute and indexed absolute
                /\ opcode \in Absolute \cup AbsoluteX \cup AbsoluteY =>
                    registers'.pc = registers.pc + 2
                /\ opcode \in Absolute => last'.mode.address = word
                /\ opcode \in AbsoluteX => last'.mode.address = (word + registers.x) % 65536
                /\ opcode \in AbsoluteY => last'.mode.address = (word + registers.y) % 65536]_vars

\* LDA $4014 has been executed at 0x02FF: PC = 0x0302 and 0x4014 was read
C30_Witness ==
    /\ Executed(173)
    /\ last.before.pc = 768
    /\ load(Self, 768) = 20
    /\ load(Self, 769) = 64
    /\ last.mode.address = 16404
    /\ registers.pc = 770

(***************************************************************************)
(* Undocumented opcodes                                                    *)
(***************************************************************************)
\* the 151 opcodes of the documented NMOS 6502 instruction set
Documented ==
    {0, 1, 5, 6, 8, 9, 10, 13, 14, 16, 17, 21, 22, 24, 25, 29, 30, 32, 33, 36, 37, 38, 40,
     41, 42, 44, 45, 46, 48, 49, 53, 54, 56, 57, 61, 62, 64, 65, 69, 70, 72, 73, 74, 76, 77,
     78, 80, 81, 85, 86, 88, 89, 93, 94, 96, 97, 101, 102, 104, 105, 106, 108, 109, 110,
     112, 113, 117, 118, 120, 121, 125, 126, 129, 132, 133, 134, 136, 138, 140, 141, 142,
     144, 145, 148, 149, 150, 152, 153, 154, 157, 160, 161, 162, 164, 165, 166, 168, 169,
     170, 172, 173, 174, 176, 177, 180, 181, 182, 184, 185, 186, 188, 189, 190, 192, 193,
     196, 197, 198, 200, 201, 202, 204, 205, 206, 208, 209, 213, 214, 216, 217, 221, 222,
     224, 225, 228, 229, 230, 232, 233, 234, 236, 237, 238, 240, 241, 245, 246, 248, 249,
     253, 254}

\* C31: an undocumented opcode behaves as a NOP: A, X, Y, S, the six flags and
\* all memory are unchanged by its execution (PC and the cost aside).
C31_UndocumentedIsNop ==
    [][\A opcode \in (0..255) \ Documented :
        (last'.op = "execute_instruction" /\ last'.returned /\ last'.opcode = opcode) =>
            /\ registers'.a = registers.a
            /\ registers'.x = registers.x
            /\ registers'.y = registers.y
            /\ registers'.stack_pointer = registers.stack_pointer
            /\ registers'.p = registers.p
            /\ UNCHANGED <<zero_page_ram, stack, internal_ram, cartridge, cycles>>]_vars

\* C32: an undocumented opcode consumes the operand bytes of the addressing
\* mode of its column: none in the implied columns (0x02/0x12 halts, 0x1A),
\* one in the immediate, zero-page and zero-page-indirect columns (0x0B
\* included), two in the absolute columns.
C32_UndocumentedOperandBytes ==
    [][\A opcode \in (0..255) \ Documented :
        (last'.op = "execute_instruction" /\ last'.returned /\ last'.opcode = opcode) =>
            LET OneByte == {3, 4, 7, 11, 19, 20, 23, 35, 39, 43, 51, 52, 55, 67, 68, 71, 75,
                            83, 84, 87, 99, 100, 103, 107, 115, 116, 119, 128, 130, 131, 135,
                            137, 139, 147, 151, 163, 167, 171, 179, 183, 194, 195, 199, 203,
                            211, 212, 215, 226, 227, 231, 235, 243, 244, 247}
                TwoBytes == {12, 15, 27, 28, 31, 47, 59, 60, 63, 79, 91, 92, 95, 111, 123,
                             124, 127, 143, 155, 156, 158, 159, 175, 187, 191, 207, 219, 220,
                             223, 239, 251, 252, 255}
            IN  registers'.pc = registers.pc + (IF opcode \in OneByte THEN 1
                                                 ELSE IF opcode \in TwoBytes THEN 2 ELSE 0)]_vars

\* C33: opcode 0x31 is AND (Indirect),Y: A becomes A & M, Z and N follow the
\* result, the other registers, flags and memory are left alone, and the cost
\* is 5, or 6 when adding Y to the pointer crosses a page.
C33_AndIndirectIndexed ==
    [][(last'.op = "execute_instruction" /\ last'.returned /\ last'.opcode = 49) =>
        \E b1 \in {load(Self, registers.pc)} :
        \E pointer \in {load(Self, b1) + 256 * load(Self, (b1 + 1) % 256)} :
        \E M \in {load(Self, (pointer + registers.y) % 65536)} :
            /\ registers'.a = BitAnd(registers.a, M)
            /\ registers'.p.zero = (registers'.a = 0)
            /\ registers'.p.negative = (registers'.a >= 128)
            /\ registers'.p.carry = registers.p.carry
            /\ registers'.p.overflow = registers.p.overflow
            /\ registers'.p.decimal = registers.p.decimal
            /\ registers'.p.interrupt_disable = registers.p.interrupt_disable
            /\ registers'.x = registers.x /\ registers'.y = registers.y
            /\ registers'.stack_pointer = registers.stack_pointer
            /\ registers'.pc = registers.pc + 1
            /\ UNCHANGED <<zero_page_ram, stack, internal_ram, cartridge>>
            /\ last'.data = IF (pointer + registers.y) \div 256 # pointer \div 256
                            THEN 6 ELSE 5]_vars

\* AND ($14),Y with Y = 1 has read 0x34 at 0x02FF: A = 0x4D & 0x34 = 0x04
C33_Witness ==
    /\ Executed(49)
    /\ last.before.a = 77
    /\ last.before.y = 1
    /\ load(Self, last.before.pc) = 20
    /\ last.mode.address = 767
    /\ registers.a = 4
    /\ last.data = 5

\* C34: BRK immediately followed by RTI leaves S and the six flags, I
\* included, as they were before the BRK.
C34_BrkRti ==
    ExecutedPair(0, 64) =>
        /\ registers.stack_pointer = last.prev.before.stack_pointer
        /\ registers.p = last.prev.before.p

\* a BRK made with S = 0x01, I clear and the five other flags set has been
\* returned from: its pushes wrapped to 0x01FF, and I is clear again
C34_Witness ==
    /\ ExecutedPair(0, 64)
    /\ last.prev.before.stack_pointer = 1
    /\ last.before.stack_pointer = 254
    /\ last.before.p.interrupt_disable
    /\ ~last.before.p.carry
    /\ registers.stack_pointer = 1
    /\ get_byte(registers.p) = 203

\* C35: return addresses are last in, first out: after n JSRs made one inside
\* the other and k RTSs, with no other stack write, PC is at the instruction
\* following the (n-k+1)-th JSR, and after the n-th RTS S is as it was before
\* the first JSR.  execute_instruction is entered with PC at the first operand
\* byte of the JSR, so the instruction following it is at that PC plus 2.
C35_NestedCalls ==
    LET h == last.history
        n == Cardinality({i \in 1..Len(h) : h[i].opcode = 32})
        k == Len(h) - n
    IN  (/\ Executed(96)
         /\ last.n = Len(h)
         /\ k \in 1..n
         /\ \A i \in 1..Len(h) : h[i].opcode = IF i <= n THEN 32 ELSE 96) =>
            /\ registers.pc = (h[n - k + 1].before.pc + 2) % 65536
            /\ k = n => registers.stack_pointer = h[1].before.stack_pointer

\* three JSRs made from S = 0x01 have pushed six bytes through 0x0100 to
\* 0x01FC, and the third RTS has returned to 0x0302 with S = 0x01 again
C35_Witness ==
    /\ Executed(96)
    /\ Len(last.history) = 6
    /\ last.history[1].before.stack_pointer = 1
    /\ last.history[3].before.stack_pointer = 253
    /\ last.history[1].before.pc = 768
    /\ last.history[6].opcode = 96
    /\ registers.pc = 770
    /\ registers.stack_pointer = 1

\* C36: write(a, v) with a in 0x0000-0x1FFF changes one RAM byte: a loads v
\* afterwards, every address of that range that is not congruent to a modulo
\* 0x0800 loads what it loaded before, and the registers, the flags, the
\* counters and the cartridge are unchanged.
C36_RamWriteFrame ==
    [][\A a \in MemAddrs :
        (MemCalled /\ last'.op = "write" /\ last'.address = a /\ a < 8192) =>
            /\ load(Self, a)' = last'.data
            /\ \A b \in (0..2047) \cup RamProbe :
                (b % 2048 # a % 2048) => load(Self, b)' = load(Self, b)
            /\ UNCHANGED <<registers, cycles, wait_cycles, cartridge>>]_vars

\* 0xFF written at 0x08FF (zero page, index 0xFF), then 0x5A at 0x11FF (stack
\* page, index 0xFF): both bytes are there
C36_Witness ==
    /\ last.op = "write" /\ last.n = 2 /\ last.address = 4607 /\ last.data = 90
    /\ load(Self, 255) = 255
    /\ load(Self, 511) = 90
    /\ load(Self, 767) = 0

\* C37: in every state reached through clock(), wait_cycles is at most 7:
\* every cost execute_instruction has returned is in 2..7, so at most 7 clock()
\* calls in a row pass without decoding an instruction.
C37_WaitCyclesBounded ==
    /\ wait_cycles \in 0..7
    /\ decoded.valid =>
        /\ decoded.cost \in 2..7
        /\ cycles - decoded.at - 1 <= 7

\* the seventh wait tick after a BRK (cost 7) has been made: the next clock()
\* decodes
C37_Witness ==
    /\ last.op = "clock" /\ last.returned /\ ~last.decode
    /\ decoded.valid /\ decoded.cost = 7
    /\ cycles = decoded.at + 8
    /\ wait_cycles = 0

\* C38: load_cartridge builds an NROM mapper exactly when the iNES mapper
\* number, (byte 6 >> 4) | (byte 7 & 0xF0), is 0, and the DummyMapper for every
\* other number, whatever the low nibble of byte 6.
C38_MapperChoice ==
    LET b6 == ArrayGet(last.rom_content.bytes, 6)
        b7 == ArrayGet(last.rom_content.bytes, 7)
        number == (b6 \div 16) + 16 * (b7 \div 16)
    IN  (last.op = "load_cartridge" /\ last.returned) =>
            cartridge.kind = IF number = 0 THEN "NROM" ELSE "DummyMapper"

=============================================================================
